---- MODULE Spec2Model ----
(***************************************************************************)
(* Model of the ASN.1 DER codec of smkit (src/unnamed/part_002): the hex  *)
(* helper, DER length / INTEGER / SEQUENCE encoding and decoding, the     *)
(* SM2 signature conversions raw <-> DER and the XML views, followed by   *)
(* the SM4, hash and SM2 engines as the specification describes them.     *)
(*                                                                         *)
(* Byte arrays (Uint8Array) are sequences over 0..255.  Offsets keep the   *)
(* JavaScript convention (first byte at offset 0).  Hex strings are        *)
(* sequences of one-character strings.  A call that throws yields a record *)
(* with ok = FALSE, a call that returns yields a record with ok = TRUE.    *)
(***************************************************************************)
EXTENDS Integers, Sequences, FiniteSets, TLC

\* ------------------------------------------------------------------------
\* Bounds of the explored inputs
\* ------------------------------------------------------------------------

\* longest run of significant bytes in a generated integer component
MaxBody == 2
\* most leading zero bytes put in front of a generated integer component
MaxLead == 2
\* longest content of a generated (possibly malformed) TLV
MaxContent == 2
\* most elements put in a generated SEQUENCE
MaxElems == 2
\* most loop iterations of decodeSequence that are followed step by step
MaxIter == 3
\* how far the length of a generated raw signature is off the required one
MaxDelta == 2
MaxBlocks == 2
MaxCalls == 5
MaxAttempts == 3

\* ------------------------------------------------------------------------
\* JavaScript values and typed-array helpers
\* ------------------------------------------------------------------------

\* the value of an out-of-range typed-array read
Undefined == -1

\* ASN1Tag
TagInteger == 2
TagSequence == 48

Throw(msg) == [ok |-> FALSE, err |-> msg]

\* data[i] of a Uint8Array
At(data, i) == IF i >= 0 /\ i < Len(data) THEN data[i + 1] ELSE Undefined

\* n copies of b
Rep(b, n) == [i \in 1..n |-> b]

Min(a, b) == IF a < b THEN a ELSE b
Max(a, b) == IF a > b THEN a ELSE b

\* TypedArray.prototype.subarray: the half-open range [from, to) of the
\* receiver that the view covers; a negative index counts from the end
RelIndex(len, i) == IF i < 0 THEN Max(len + i, 0) ELSE Min(i, len)

SubarrayRange(len, begin, end) ==
    LET from == RelIndex(len, begin)
        to   == RelIndex(len, end)
    IN  <<from, Max(to, from)>>

Subarray(data, begin, end) ==
    LET rg == SubarrayRange(Len(data), begin, end)
    IN  SubSeq(data, rg[1] + 1, rg[2])

\* ------------------------------------------------------------------------
\* Hex
\* ------------------------------------------------------------------------

HexDigits == <<"0", "1", "2", "3", "4", "5", "6", "7",
               "8", "9", "a", "b", "c", "d", "e", "f">>

UpperDigits == <<"0", "1", "2", "3", "4", "5", "6", "7",
                 "8", "9", "A", "B", "C", "D", "E", "F">>

\* Hex.byteToHex[i] = i.toString(16).padStart(2, '0')
ByteToHex(b) == <<HexDigits[(b \div 16) + 1], HexDigits[(b % 16) + 1]>>

\* hex[i] = byteToHex[bytes[i]], joined
HexEncode(bytes) ==
    [k \in 1..(2 * Len(bytes)) |-> ByteToHex(bytes[(k + 1) \div 2])[2 - (k % 2)]]

\* value of one character as a base-16 digit, Undefined when it is none
DigitVal(c) ==
    IF \E i \in 1..16 : HexDigits[i] = c
    THEN (CHOOSE i \in 1..16 : HexDigits[i] = c) - 1
    ELSE IF \E i \in 1..16 : UpperDigits[i] = c
    THEN (CHOOSE i \in 1..16 : UpperDigits[i] = c) - 1
    ELSE Undefined

\* bytes[i] = parseInt(two characters, 16): parseInt reads the longest
\* prefix of digits, NaN (stored as 0 in a Uint8Array) when there is none
ParseInt16(c1, c2) ==
    IF DigitVal(c1) = Undefined THEN 0
    ELSE IF DigitVal(c2) = Undefined THEN DigitVal(c1)
    ELSE 16 * DigitVal(c1) + DigitVal(c2)

\* bytes[i] = parseInt(hex.substring(i * 2, i * 2 + 2), 16)
HexDecodeBytes(hex) ==
    [i \in 1..(Len(hex) \div 2) |-> ParseInt16(hex[2 * i - 1], hex[2 * i])]

\* Hex.decode without the check of the length
HexDecodeAnyLength(hex) == [ok |-> TRUE, bytes |-> HexDecodeBytes(hex)]

HexDecode(hex) ==
    IF Len(hex) % 2 # 0 THEN Throw("Invalid hex string length")
    ELSE [ok |-> TRUE, bytes |-> HexDecodeBytes(hex)]

\* String.prototype.padStart(n, '0')
PadStart(s, n) == IF Len(s) >= n THEN s ELSE Rep("0", n - Len(s)) \o s

\* ------------------------------------------------------------------------
\* DER length
\* ------------------------------------------------------------------------

RECURSIVE ByteCount(_)
ByteCount(temp) == IF temp > 0 THEN 1 + ByteCount(temp \div 256) ELSE 0

RECURSIVE BigEndian(_, _)
BigEndian(temp, k) ==
    IF k = 0 THEN <<>> ELSE BigEndian(temp \div 256, k - 1) \o <<temp % 256>>

\* EncodeLength with the short form taken up to 128 inclusive
EncodeLengthShort128(length) ==
    IF length <= 128 THEN <<length>>
    ELSE LET byteCount == ByteCount(length)
         IN  <<128 + byteCount>> \o BigEndian(length, byteCount)

EncodeLength(length) ==
    IF length < 128 THEN <<length>>
    ELSE LET byteCount == ByteCount(length)
         IN  <<128 + byteCount>> \o BigEndian(length, byteCount)

\* (x << 8) on a 32-bit signed integer
Shl8(x) ==
    LET m == x % 16777216
    IN  IF m >= 8388608 THEN (m - 16777216) * 256 ELSE m * 256

\* length = (length << 8) | data[offset + 1 + i], for i = 0 .. numBytes-1
RECURSIVE LengthLoop(_, _, _)
LengthLoop(data, offset, i) ==
    IF i = 0 THEN 0
    ELSE Shl8(LengthLoop(data, offset, i - 1)) + At(data, offset + i)

\* DecodeLength without the rejection of a long form of zero length bytes
DecodeLengthZeroCount(data, offset) ==
    IF offset >= Len(data) THEN Throw("Offset out of bounds")
    ELSE LET firstByte == At(data, offset)
             numBytes  == IF firstByte = Undefined THEN 0 ELSE firstByte % 128
         IN  IF firstByte # Undefined /\ firstByte < 128
             THEN [ok |-> TRUE, length |-> firstByte, bytesRead |-> 1]
             ELSE IF numBytes > 4
             THEN Throw("Invalid or unsupported long form length")
             ELSE IF offset + 1 + numBytes > Len(data)
             THEN Throw("Length bytes out of bounds")
             ELSE [ok |-> TRUE,
                   length |-> LengthLoop(data, offset, numBytes),
                   bytesRead |-> 1 + numBytes]

DecodeLength(data, offset) ==
    IF offset >= Len(data) THEN Throw("Offset out of bounds")
    ELSE LET firstByte == At(data, offset)
             numBytes  == IF firstByte = Undefined THEN 0 ELSE firstByte % 128
         IN  IF firstByte # Undefined /\ firstByte < 128
             THEN [ok |-> TRUE, length |-> firstByte, bytesRead |-> 1]
             ELSE IF numBytes = 0 \/ numBytes > 4
             THEN Throw("Invalid or unsupported long form length")
             ELSE IF offset + 1 + numBytes > Len(data)
             THEN Throw("Length bytes out of bounds")
             ELSE [ok |-> TRUE,
                   length |-> LengthLoop(data, offset, numBytes),
                   bytesRead |-> 1 + numBytes]

\* ------------------------------------------------------------------------
\* INTEGER
\* ------------------------------------------------------------------------

\* an argument of type string | Uint8Array
Str(h) == [type |-> "string", v |-> h]
Bytes(b) == [type |-> "bytes", v |-> b]

\* The one element of a singleton.  Only({F(x) : x \in {e}}) is F(e) with e
\* evaluated once and its value named x, as a local constant of the code is.
Only(S) == CHOOSE v \in S : TRUE

\* LeadingZeros that does not keep the last byte
RECURSIVE LeadingZerosAll(_, _)
LeadingZerosAll(bytes, start) ==
    IF start < Len(bytes) /\ At(bytes, start) = 0
    THEN LeadingZerosAll(bytes, start + 1)
    ELSE start

\* while (start < bytes.length - 1 && bytes[start] === 0) start++
RECURSIVE LeadingZeros(_, _)
LeadingZeros(bytes, start) ==
    IF start < Len(bytes) - 1 /\ At(bytes, start) = 0
    THEN LeadingZeros(bytes, start + 1)
    ELSE start

\* encodeInteger once the argument is a byte array
EncodeIntegerBytes(bytes0) ==
    LET Emit(bytes) ==
            LET needPadding == At(bytes, 0) # Undefined /\ At(bytes, 0) >= 128
                contentLen  == Len(bytes) + (IF needPadding THEN 1 ELSE 0)
                lengthBytes == EncodeLength(contentLen)
            IN  <<TagInteger>> \o lengthBytes
                    \o (IF needPadding THEN <<0>> ELSE <<>>) \o bytes
        Strip(start) ==
            IF start > 0 THEN Subarray(bytes0, start, Len(bytes0)) ELSE bytes0
    IN  Only({Emit(bytes) : bytes \in {Strip(start) : start \in {LeadingZeros(bytes0, 0)}}})

EncodeInteger(value) ==
    IF value.type = "string"
    THEN LET Encode(d) ==
                 IF d.ok THEN [ok |-> TRUE, der |-> EncodeIntegerBytes(d.bytes)] ELSE d
         IN  Only({Encode(d) : d \in {HexDecode(value.v)}})
    ELSE [ok |-> TRUE, der |-> EncodeIntegerBytes(value.v)]

\* DecodeInteger that leaves the tag byte out of bytesRead
DecodeIntegerShortRead(data, offset) ==
    IF At(data, offset) # TagInteger
    THEN Throw("Expected INTEGER tag (0x02)")
    ELSE LET Value(dl) ==
                 IF ~dl.ok THEN dl
                 ELSE LET start == offset + 1 + dl.bytesRead
                          end   == start + dl.length
                          view  == Subarray(data, start, end)
                      IN  IF end > Len(data) THEN Throw("Integer value out of bounds")
                          ELSE [ok |-> TRUE,
                                value |-> IF Len(view) > 1 /\ view[1] = 0
                                          THEN Subarray(view, 1, Len(view))
                                          ELSE view,
                                bytesRead |-> dl.bytesRead + dl.length]
         IN  Only({Value(dl) : dl \in {DecodeLength(data, offset + 1)}})

\* DecodeInteger that strips a leading 0x00 of a one-byte content too
DecodeIntegerStripAny(data, offset) ==
    IF At(data, offset) # TagInteger
    THEN Throw("Expected INTEGER tag (0x02)")
    ELSE LET Value(dl) ==
                 IF ~dl.ok THEN dl
                 ELSE LET start == offset + 1 + dl.bytesRead
                          end   == start + dl.length
                          view  == Subarray(data, start, end)
                      IN  IF end > Len(data) THEN Throw("Integer value out of bounds")
                          ELSE [ok |-> TRUE,
                                value |-> IF Len(view) > 0 /\ view[1] = 0
                                          THEN Subarray(view, 1, Len(view))
                                          ELSE view,
                                bytesRead |-> 1 + dl.bytesRead + dl.length]
         IN  Only({Value(dl) : dl \in {DecodeLength(data, offset + 1)}})

DecodeInteger(data, offset) ==
    IF At(data, offset) # TagInteger
    THEN Throw("Expected INTEGER tag (0x02)")
    ELSE LET Value(dl) ==
                 IF ~dl.ok THEN dl
                 ELSE LET start == offset + 1 + dl.bytesRead
                          end   == start + dl.length
                          view  == Subarray(data, start, end)
                      IN  IF end > Len(data) THEN Throw("Integer value out of bounds")
                          ELSE [ok |-> TRUE,
                                value |-> IF Len(view) > 1 /\ view[1] = 0
                                          THEN Subarray(view, 1, Len(view))
                                          ELSE view,
                                bytesRead |-> 1 + dl.bytesRead + dl.length]
         IN  Only({Value(dl) : dl \in {DecodeLength(data, offset + 1)}})

\* A Uint8Array that a decoder returns, as the object it is: a view of the
\* bytes [from, to) of the buffer of the source array (shared = TRUE), or
\* an array over a buffer of its own (shared = FALSE).
View(from, to) == [shared |-> TRUE, from |-> from, to |-> to]
Copy(bytes) == [shared |-> FALSE, bytes |-> bytes]

\* v.subarray(begin, end) of a view v
SubView(v, begin, end) ==
    LET rg == SubarrayRange(v.to - v.from, begin, end)
    IN  View(v.from + rg[1], v.from + rg[2])

\* DecodeIntegerView that strips the leading 0x00 with slice(1), a copy
DecodeIntegerViewSliced(data, offset) ==
    LET Value(dl) ==
            LET start == offset + 1 + dl.bytesRead
                end   == start + dl.length
                view  == SubView(View(0, Len(data)), start, end)
            IN  IF view.to - view.from > 1 /\ At(data, view.from) = 0
                THEN Copy(SubSeq(data, view.from + 2, view.to))
                ELSE view
    IN  Only({Value(dl) : dl \in {DecodeLength(data, offset + 1)}})

\* the array object that decodeInteger returns as value, when it returns
DecodeIntegerView(data, offset) ==
    LET Value(dl) ==
            LET start == offset + 1 + dl.bytesRead
                end   == start + dl.length
                view  == SubView(View(0, Len(data)), start, end)
            IN  IF view.to - view.from > 1 /\ At(data, view.from) = 0
                THEN SubView(view, 1, view.to - view.from)
                ELSE view
    IN  Only({Value(dl) : dl \in {DecodeLength(data, offset + 1)}})

\* ------------------------------------------------------------------------
\* SEQUENCE
\* ------------------------------------------------------------------------

RECURSIVE Concat(_)
Concat(elements) ==
    IF elements = <<>> THEN <<>> ELSE Head(elements) \o Concat(Tail(elements))

\* EncodeSequence that writes the content length as one byte
EncodeSequenceOneByteLength(elements) ==
    LET Emit(content) == <<TagSequence>> \o <<Len(content) % 256>> \o content
    IN  Only({Emit(content) : content \in {Concat(elements)}})

EncodeSequence(elements) ==
    LET Emit(content) == <<TagSequence>> \o EncodeLength(Len(content)) \o content
    IN  Only({Emit(content) : content \in {Concat(elements)}})

\* the part of decodeSequence before its element loop
DecodeSequenceHead(data, offset) ==
    IF At(data, offset) # TagSequence
    THEN Throw("Expected SEQUENCE tag")
    ELSE LET Head_(dl) ==
                 IF ~dl.ok THEN dl
                 ELSE LET contentStart == offset + 1 + dl.bytesRead
                          contentEnd_  == contentStart + dl.length
                      IN  IF contentEnd_ > Len(data)
                          THEN Throw("Sequence content out of bounds")
                          ELSE [ok |-> TRUE,
                                contentStart |-> contentStart,
                                contentEnd |-> contentEnd_,
                                bytesRead |-> 1 + dl.bytesRead + dl.length]
         IN  Only({Head_(dl) : dl \in {DecodeLength(data, offset + 1)}})

\* one iteration of the element loop, entered with pos < contentEnd
DecodeSequenceBody(data, at) ==
    LET Element(dl) ==
            IF ~dl.ok THEN dl
            ELSE LET elemTotalLength == 1 + dl.bytesRead + dl.length
                 IN  [ok |-> TRUE,
                      element |-> Subarray(data, at, at + elemTotalLength),
                      pos |-> at + elemTotalLength]
    IN  Only({Element(dl) : dl \in {DecodeLength(data, at + 1)}})

\* the array object pushed by an iteration that does not throw
DecodeSequenceElementView(data, at) ==
    LET Element(dl) ==
            LET elemTotalLength == 1 + dl.bytesRead + dl.length
            IN  SubView(View(0, Len(data)), at, at + elemTotalLength)
    IN  Only({Element(dl) : dl \in {DecodeLength(data, at + 1)}})

\* the element loop run to its end.  The loop's control state is pos alone,
\* so an iteration that comes back to a position already visited repeats
\* for ever: that outcome is reported as hang = TRUE.
RECURSIVE DecodeSequenceLoop(_, _, _, _, _)
DecodeSequenceLoop(data, at, end, collected, visited) ==
    IF ~(at < end) THEN [ok |-> TRUE, hang |-> FALSE, elements |-> collected]
    ELSE IF at \in visited THEN [ok |-> FALSE, hang |-> TRUE, err |-> "never returns"]
    ELSE LET After(b) ==
                 IF ~b.ok THEN [ok |-> FALSE, hang |-> FALSE, err |-> b.err]
                 ELSE DecodeSequenceLoop(data, b.pos, end,
                                         Append(collected, b.element),
                                         visited \cup {at})
         IN  Only({After(b) : b \in {DecodeSequenceBody(data, at)}})

DecodeSequence(data, offset) ==
    LET Return(h, l) ==
            IF ~l.ok THEN l
            ELSE [ok |-> TRUE, hang |-> FALSE,
                  elements |-> l.elements, bytesRead |-> h.bytesRead]
        Loop(h) ==
            IF ~h.ok THEN [ok |-> FALSE, hang |-> FALSE, err |-> h.err]
            ELSE Only({Return(h, l) :
                        l \in {DecodeSequenceLoop(data, h.contentStart, h.contentEnd, <<>>, {})}})
    IN  Only({Loop(h) : h \in {DecodeSequenceHead(data, offset)}})

\* ------------------------------------------------------------------------
\* SM2 signature
\* ------------------------------------------------------------------------

\* EncodeSignature with the two INTEGERs in the order s, r
EncodeSignatureSwapped(r, s) ==
    LET Emit(rEncoded, sEncoded) ==
            IF ~rEncoded.ok THEN rEncoded
            ELSE IF ~sEncoded.ok THEN sEncoded
            ELSE [ok |-> TRUE, der |-> EncodeSequence(<<sEncoded.der, rEncoded.der>>)]
    IN  Only({Emit(rEncoded, sEncoded) :
                rEncoded \in {EncodeInteger(r)}, sEncoded \in {EncodeInteger(s)}})

EncodeSignature(r, s) ==
    LET Emit(rEncoded, sEncoded) ==
            IF ~rEncoded.ok THEN rEncoded
            ELSE IF ~sEncoded.ok THEN sEncoded
            ELSE [ok |-> TRUE, der |-> EncodeSequence(<<rEncoded.der, sEncoded.der>>)]
    IN  Only({Emit(rEncoded, sEncoded) :
                rEncoded \in {EncodeInteger(r)}, sEncoded \in {EncodeInteger(s)}})

DecodeSignature(signature) ==
    LET Return(rd, sd) ==
            IF ~rd.ok THEN [ok |-> FALSE, hang |-> FALSE, err |-> rd.err]
            ELSE IF ~sd.ok THEN [ok |-> FALSE, hang |-> FALSE, err |-> sd.err]
            ELSE [ok |-> TRUE, hang |-> FALSE,
                  r |-> HexEncode(rd.value), s |-> HexEncode(sd.value)]
        Integers_(sq) ==
            IF ~sq.ok THEN sq
            ELSE IF Len(sq.elements) # 2
            THEN [ok |-> FALSE, hang |-> FALSE,
                  err |-> "Invalid signature: expected 2 elements (r, s)"]
            ELSE Only({Return(rd, sd) :
                        rd \in {DecodeInteger(sq.elements[1], 0)},
                        sd \in {DecodeInteger(sq.elements[2], 0)}})
    IN  Only({Integers_(sq) : sq \in {DecodeSequence(signature, 0)}})

\* RawToDer without the length check of a byte-array argument
RawToDerAnyBytes(rawSignature) ==
    IF rawSignature.type = "string" /\ Len(rawSignature.v) # 128
    THEN Throw("Raw signature string must be 128 hex chars")
    ELSE LET Split(bytes) ==
                 EncodeSignature(Bytes(Subarray(bytes, 0, 32)),
                                 Bytes(Subarray(bytes, 32, 64)))
         IN  Only({Split(bytes) :
                     bytes \in {IF rawSignature.type = "string"
                                THEN HexDecode(rawSignature.v).bytes
                                ELSE rawSignature.v}})

RawToDer(rawSignature) ==
    IF rawSignature.type = "string" /\ Len(rawSignature.v) # 128
    THEN Throw("Raw signature string must be 128 hex chars")
    ELSE IF rawSignature.type = "bytes" /\ Len(rawSignature.v) # 64
    THEN Throw("Raw signature bytes must be 64 bytes")
    ELSE LET Split(bytes) ==
                 EncodeSignature(Bytes(Subarray(bytes, 0, 32)),
                                 Bytes(Subarray(bytes, 32, 64)))
         IN  Only({Split(bytes) :
                     bytes \in {IF rawSignature.type = "string"
                                THEN HexDecode(rawSignature.v).bytes
                                ELSE rawSignature.v}})

\* DerToRaw without the padding of the components
DerToRawNoPad(derSignature) ==
    LET Pad(d) ==
            IF ~d.ok THEN d
            ELSE [ok |-> TRUE, hang |-> FALSE, raw |-> d.r \o d.s]
    IN  Only({Pad(d) : d \in {DecodeSignature(derSignature)}})

DerToRaw(derSignature) ==
    LET Pad(d) ==
            IF ~d.ok THEN d
            ELSE [ok |-> TRUE, hang |-> FALSE,
                  raw |-> PadStart(d.r, 64) \o PadStart(d.s, 64)]
    IN  Only({Pad(d) : d \in {DecodeSignature(derSignature)}})

\* ------------------------------------------------------------------------
\* XML views
\* ------------------------------------------------------------------------

\* The text that asn1ToXml builds is kept as the sequence of the pieces
\* pushed to its buffer: the indentation of a piece is its level, a tag
\* name is a sequence of strings, a value is hex text.

\* tagName of recurse
TagName(tag) ==
    IF tag = 2 THEN <<"INTEGER">>
    ELSE IF tag = 3 THEN <<"BIT_STRING">>
    ELSE IF tag = 4 THEN <<"OCTET_STRING">>
    ELSE IF tag = 5 THEN <<"NULL">>
    ELSE IF tag = 6 THEN <<"OBJECT_IDENTIFIER">>
    ELSE IF tag = TagSequence THEN <<"SEQUENCE">>
    ELSE <<"TAG_0x", UpperDigits[(tag \div 16) + 1], UpperDigits[(tag % 16) + 1]>>

RECURSIVE XmlRecurse(_, _, _)
RECURSIVE XmlElements(_, _, _, _)

\* recurse(offset, level): the pieces pushed for the element at offset
XmlRecurse(data, offset, level) ==
    IF offset >= Len(data) THEN [ok |-> TRUE, buffer |-> <<>>]
    ELSE LET Node(tag, dl) ==
                 IF ~dl.ok THEN dl
                 ELSE IF tag = Undefined THEN Throw("TypeError: tag is undefined")
                 ELSE LET contentStart == offset + 1 + dl.bytesRead
                          contentEnd_  == contentStart + dl.length
                          open  == [push |-> "open", level |-> level, name |-> TagName(tag)]
                          close == [push |-> "close", name |-> TagName(tag), newline |-> TRUE]
                          Wrap(c) ==
                              IF ~c.ok THEN c
                              ELSE [ok |-> TRUE,
                                    buffer |-> <<open, [push |-> "newline"]>> \o c.buffer
                                                 \o <<[push |-> "indent", level |-> level], close>>]
                      IN  IF tag = TagSequence
                          THEN Only({Wrap(c) :
                                       c \in {XmlElements(data, contentStart, contentEnd_,
                                                          level + 1)}})
                          ELSE IF tag = 5
                          THEN [ok |-> TRUE, buffer |-> <<open, close>>]
                          ELSE [ok |-> TRUE,
                                buffer |-> <<open,
                                             [push |-> "value", level |-> level,
                                              hex |-> HexEncode(Subarray(data, contentStart,
                                                                         contentEnd_))],
                                             close>>]
         IN  Only({Node(At(data, offset), dl) : dl \in {DecodeLength(data, offset + 1)}})

\* the loop over the elements from subOffset up to end: the length of the
\* element is read, the element is pushed, the offset moves to the next
\* one.  asn1ToXml runs it over its roots and recurse over the content of
\* a SEQUENCE.
XmlElements(data, subOffset, end, level) ==
    IF ~(subOffset < end) THEN [ok |-> TRUE, buffer |-> <<>>]
    ELSE LET Rest(r, c) ==
                 IF ~c.ok THEN c ELSE [ok |-> TRUE, buffer |-> r.buffer \o c.buffer]
             Join(r, nextOffset) ==
                 IF ~r.ok THEN r
                 ELSE Only({Rest(r, c) : c \in {XmlElements(data, nextOffset, end, level)}})
             Step(info) ==
                 IF ~info.ok THEN info
                 ELSE Only({Join(r, subOffset + 1 + info.bytesRead + info.length) :
                              r \in {XmlRecurse(data, subOffset, level)}})
         IN  Only({Step(info) : info \in {DecodeLength(data, subOffset + 1)}})

Asn1ToXml(data, indent) == XmlElements(data, 0, Len(data), indent)

\* String.prototype.trimEnd of the joined buffer: the line break after the
\* last closing tag goes
TrimEnd(buffer) ==
    IF buffer = <<>> THEN <<>>
    ELSE [buffer EXCEPT ![Len(buffer)] =
            IF @.push = "close" THEN [@ EXCEPT !.newline = FALSE] ELSE @]

\* cleanSig.startsWith('30')
StartsWith30(text) == Len(text) >= 2 /\ text[1] = "3" /\ text[2] = "0"

\* signatureToXml(signature, isDer).  The document returned is kept as
\* the parts that vary: r, s and the pieces between <DER> and </DER>.
\* The argument isDer is assigned before it is read.
SignatureToXml(signature, isDer) ==
    LET Finish(d, x) ==
            IF ~x.ok THEN [ok |-> FALSE, hang |-> FALSE, err |-> x.err]
            ELSE [ok |-> TRUE, hang |-> FALSE,
                  xml |-> [r |-> d.r, s |-> d.s, der |-> TrimEnd(x.buffer)]]
        Document(derBytes, d) ==
            IF ~d.ok THEN d
            ELSE Only({Finish(d, x) : x \in {Asn1ToXml(derBytes, 2)}})
        Decode(derBytes) ==
            Only({Document(derBytes, d) : d \in {DecodeSignature(derBytes)}})
        Convert(c) ==
            IF ~c.ok THEN [ok |-> FALSE, hang |-> FALSE, err |-> c.err]
            ELSE Decode(IF signature.type = "string" /\ ~(StartsWith30(signature.v)
                                                           /\ Len(signature.v) > 130)
                        THEN c.der ELSE c.bytes)
    IN  IF signature.type = "string"
        THEN IF StartsWith30(signature.v) /\ Len(signature.v) > 130
             THEN Only({Convert(c) : c \in {HexDecode(signature.v)}})
             ELSE Only({Convert(c) : c \in {RawToDer(signature)}})
        ELSE Decode(signature.v)

\* ------------------------------------------------------------------------
\* SM4 block cipher (specification section 4.2)
\* ------------------------------------------------------------------------

\* bytes of a block, of a key and of an IV; rounds and round subkeys
BlockSize == 16
Rounds == 32

\* exclusive or of two bytes
RECURSIVE XorBits(_, _)
XorBits(a, b) ==
    IF a = 0 THEN b
    ELSE IF b = 0 THEN a
    ELSE 2 * XorBits(a \div 2, b \div 2) + ((a + b) % 2)

XorTable == [a \in 0..255 |-> [b \in 0..255 |-> XorBits(a, b)]]

Xor(a, b) == XorTable[a][b]

\* exclusive or of two byte strings, as long as the shorter one
XorBytes(x, y) == [i \in 1..Min(Len(x), Len(y)) |-> Xor(x[i], y[i])]

\* the 32-bit word number w (from 0) of a block, as 4 bytes
Word(block, w) == SubSeq(block, 4 * w + 1, 4 * w + 4)

\* The fixed nonlinear transform of a word.  The specification does not
\* give its table; a byte substitution followed by a rotation of the
\* bytes stands for it.  It needs no inverse.
Substitute(b) == (b * b + 7 * b + 99) % 256

Transform(word) ==
    LET t == [i \in 1..4 |-> Substitute(word[i])]
    IN  <<Xor(t[1], t[2]), Xor(t[2], t[3]), Xor(t[3], t[4]), Xor(t[4], t[1])>>

\* the constant mixed into round i (from 0) of the key schedule
RoundConstant(i) == [j \in 1..4 |-> ((4 * i + j - 1) * 7) % 256]

\* one Feistel round on the four words x with the subkey rk: the words
\* move up by one and the new last word is X0 xor T(X1 xor X2 xor X3 xor rk)
FeistelRound(x, rk) ==
    <<x[2], x[3], x[4],
      XorBytes(x[1], Transform(XorBytes(XorBytes(x[2], x[3]), XorBytes(x[4], rk))))>>

\* the key schedule: Rounds subkeys, derived once from the 16-byte key
RECURSIVE ScheduleFrom(_, _, _)
ScheduleFrom(k, i, subkeys) ==
    IF i = Rounds THEN subkeys
    ELSE Only({ScheduleFrom(n, i + 1, Append(subkeys, n[4])) :
                 n \in {FeistelRound(k, RoundConstant(i))}})

KeySchedule(key) ==
    ScheduleFrom(<<Word(key, 0), Word(key, 1), Word(key, 2), Word(key, 3)>>, 0, <<>>)

\* the rounds of one block with the subkeys in the order given
RECURSIVE RunRounds(_, _, _)
RunRounds(x, subkeys, i) ==
    IF i > Len(subkeys) THEN x
    ELSE Only({RunRounds(n, subkeys, i + 1) : n \in {FeistelRound(x, subkeys[i])}})

\* one 16-byte block through the rounds, then the words in reverse order
CryptBlock(block, subkeys) ==
    LET Swap(x) == x[4] \o x[3] \o x[2] \o x[1]
    IN  Only({Swap(x) :
                x \in {RunRounds(<<Word(block, 0), Word(block, 1),
                                    Word(block, 2), Word(block, 3)>>, subkeys, 1)}})

Reverse(q) == [i \in 1..Len(q) |-> q[Len(q) + 1 - i]]

EncryptBlock(block, subkeys) == CryptBlock(block, subkeys)

\* DecryptBlock with the subkeys in the order of encryption
DecryptBlockSameOrder(block, subkeys) == CryptBlock(block, subkeys)

\* decryption is the same rounds with the subkeys in reverse order
DecryptBlock(block, subkeys) == CryptBlock(block, Reverse(subkeys))

\* CipherMode and PaddingMode, closed enumerations
BlockModes == {"ECB", "CBC"}
StreamModes == {"CTR", "CFB", "OFB", "GCM"}
CipherModes == BlockModes \cup StreamModes
PaddingModes == {"PKCS7", "NONE"}

\* the blocks of a byte string, the last one shorter when the length is
\* no multiple of the block size
BlockCount(d) == (Len(d) + BlockSize - 1) \div BlockSize

BlockAt(d, i) == SubSeq(d, BlockSize * (i - 1) + 1, Min(BlockSize * i, Len(d)))

\* PKCS7: pad to the block boundary with bytes whose value is their number
Pkcs7Pad(d) ==
    LET n == BlockSize - (Len(d) % BlockSize)
    IN  d \o Rep(n, n)

\* PKCS7 on decryption: validate and strip
Pkcs7Unpad(d) ==
    LET n == At(d, Len(d) - 1)
    IN  IF \/ Len(d) = 0
           \/ n < 1
           \/ n > BlockSize
           \/ n > Len(d)
           \/ \E i \in (Len(d) - n + 1)..Len(d) : d[i] # n
        THEN Throw("ValidationError: invalid padding")
        ELSE [ok |-> TRUE, bytes |-> SubSeq(d, 1, Len(d) - n)]

\* the counter register after one more block: the 16 bytes as one
\* big-endian number, plus one
RECURSIVE Increment(_, _)
Increment(counter, i) ==
    IF i = 0 THEN counter
    ELSE IF counter[i] = 255 THEN Increment([counter EXCEPT ![i] = 0], i - 1)
    ELSE [counter EXCEPT ![i] = counter[i] + 1]

\* ECB: each block on its own
RECURSIVE EcbEncrypt(_, _, _, _)
EcbEncrypt(d, subkeys, i, done) ==
    IF i > BlockCount(d) THEN done
    ELSE Only({EcbEncrypt(d, subkeys, i + 1, done \o c) :
                 c \in {EncryptBlock(BlockAt(d, i), subkeys)}})

RECURSIVE EcbDecrypt(_, _, _, _)
EcbDecrypt(d, subkeys, i, done) ==
    IF i > BlockCount(d) THEN done
    ELSE Only({EcbDecrypt(d, subkeys, i + 1, done \o q) :
                 q \in {DecryptBlock(BlockAt(d, i), subkeys)}})

\* CbcEncrypt whose register stays the IV
RECURSIVE CbcEncryptUnchained(_, _, _, _, _)
CbcEncryptUnchained(d, subkeys, i, register, done) ==
    IF i > BlockCount(d) THEN done
    ELSE Only({CbcEncryptUnchained(d, subkeys, i + 1, register, done \o c) :
                 c \in {EncryptBlock(XorBytes(BlockAt(d, i), register), subkeys)}})

\* CBC encryption: block i is the encryption of the plaintext block xor
\* the previous ciphertext block, the IV for the first one
RECURSIVE CbcEncrypt(_, _, _, _, _)
CbcEncrypt(d, subkeys, i, register, done) ==
    IF i > BlockCount(d) THEN done
    ELSE Only({CbcEncrypt(d, subkeys, i + 1, c, done \o c) :
                 c \in {EncryptBlock(XorBytes(BlockAt(d, i), register), subkeys)}})

\* CBC decryption: decrypt the block, then undo the xor
RECURSIVE CbcDecrypt(_, _, _, _, _)
CbcDecrypt(d, subkeys, i, register, done) ==
    IF i > BlockCount(d) THEN done
    ELSE Only({CbcDecrypt(d, subkeys, i + 1, BlockAt(d, i), done \o q) :
                 q \in {XorBytes(DecryptBlock(BlockAt(d, i), subkeys), register)}})

\* CTR: keystream block = encrypt(counter), the counter one up per block;
\* decryption is the same operation
RECURSIVE Ctr(_, _, _, _, _)
Ctr(d, subkeys, i, counter, done) ==
    IF i > BlockCount(d) THEN done
    ELSE Only({Ctr(d, subkeys, i + 1, Increment(counter, BlockSize), done \o c) :
                 c \in {XorBytes(BlockAt(d, i), EncryptBlock(counter, subkeys))}})

\* CFB: the register starts as the IV and takes the ciphertext block
RECURSIVE Cfb(_, _, _, _, _, _)
Cfb(d, subkeys, i, register, done, decrypting) ==
    IF i > BlockCount(d) THEN done
    ELSE Only({Cfb(d, subkeys, i + 1,
                   IF decrypting THEN BlockAt(d, i) ELSE c, done \o c, decrypting) :
                 c \in {XorBytes(BlockAt(d, i), EncryptBlock(register, subkeys))}})

\* OFB: the register starts as the IV and takes the keystream block;
\* decryption is the same operation
RECURSIVE Ofb(_, _, _, _, _)
Ofb(d, subkeys, i, register, done) ==
    IF i > BlockCount(d) THEN done
    ELSE Only({Ofb(d, subkeys, i + 1, o, done \o XorBytes(BlockAt(d, i), o)) :
                 o \in {EncryptBlock(register, subkeys)}})

\* GCM: multiplication in GF(2^128) of two 16-byte strings, bit 0 the top
\* bit of the first byte
TagSize == 16

ShiftRight(v) ==
    [i \in 1..Len(v) |->
        (v[i] \div 2) + (IF i > 1 /\ v[i - 1] % 2 = 1 THEN 128 ELSE 0)]

\* the top byte of the reduction polynomial, 11100001
ReductionByte == 225

\* v times the indeterminate: one bit to the right, reduced
MulX(v) ==
    Only({IF v[BlockSize] % 2 = 0 THEN t ELSE [t EXCEPT ![1] = Xor(@, ReductionByte)] :
            t \in {ShiftRight(v)}})

\* the bits k..7 of the byte b (bit 0 the top bit): z takes v for each
\* bit set and v moves on by one bit; yields <<z, v>>
RECURSIVE MultiplyByte(_, _, _, _)
MultiplyByte(b, k, z, v) ==
    IF k = 8 THEN <<z, v>>
    ELSE Only({MultiplyByte(b, k + 1, z2, v2) :
                 z2 \in {IF (b \div (2 ^ (7 - k))) % 2 = 1 THEN XorBytes(z, v) ELSE z},
                 v2 \in {MulX(v)}})

RECURSIVE MultiplyBytes(_, _, _, _)
MultiplyBytes(x, j, z, v) ==
    IF j > Len(x) THEN z
    ELSE Only({MultiplyBytes(x, j + 1, zv[1], zv[2]) :
                 zv \in {MultiplyByte(x[j], 0, z, v)}})

GfMultiply(x, y) == MultiplyBytes(x, 1, Rep(0, BlockSize), y)

\* a block filled up with zero bytes
ZeroFill(block) == block \o Rep(0, BlockSize - Len(block))

\* the universal hash accumulating over the blocks of d
RECURSIVE GhashBlocks(_, _, _, _)
GhashBlocks(h, d, i, y) ==
    IF i > BlockCount(d) THEN y
    ELSE Only({GhashBlocks(h, d, i + 1, n) :
                 n \in {GfMultiply(XorBytes(y, ZeroFill(BlockAt(d, i))), h)}})

\* the number n, below 2^31, as 8 big-endian bytes
Length64(n) ==
    <<0, 0, 0, 0, n \div 16777216, (n \div 65536) % 256, (n \div 256) % 256, n % 256>>

\* the 16-byte tag over the additional data and the ciphertext: the hash
\* subkey is the encrypted all-zero block, the mask the encrypted IV
GcmTag(subkeys, iv, aad, ciphertext) ==
    LET Hash(h) ==
            GfMultiply(
                XorBytes(GhashBlocks(h, ciphertext, 1, GhashBlocks(h, aad, 1, Rep(0, BlockSize))),
                         Length64(8 * Len(aad)) \o Length64(8 * Len(ciphertext))),
                h)
    IN  Only({XorBytes(Hash(h), EncryptBlock(iv, subkeys)) :
                h \in {EncryptBlock(Rep(0, BlockSize), subkeys)}})

\* what is wrong with the key and the options, "" when nothing is
Sm4Problem(key, options) ==
    IF Len(key) # BlockSize THEN "ValidationError: key length"
    ELSE IF options.mode \notin CipherModes THEN "ValidationError: unsupported mode"
    ELSE IF options.padding \notin PaddingModes THEN "ValidationError: unsupported padding"
    ELSE IF options.mode # "ECB" /\ Len(options.iv) # BlockSize
    THEN "ValidationError: iv length"
    ELSE ""

\* encrypt(key, plaintext, options) of sm4: the ciphertext, and the tag in
\* GCM.  The stream-like modes take the plaintext as it is.
Sm4Encrypt(key, plaintext, options) ==
    LET mode == options.mode
        Run(subkeys, data) ==
            CASE mode = "ECB" -> [ok |-> TRUE, ciphertext |-> EcbEncrypt(data, subkeys, 1, <<>>)]
              [] mode = "CBC" ->
                    [ok |-> TRUE,
                     ciphertext |-> CbcEncrypt(data, subkeys, 1, options.iv, <<>>)]
              [] mode = "CTR" ->
                    [ok |-> TRUE, ciphertext |-> Ctr(data, subkeys, 1, options.iv, <<>>)]
              [] mode = "CFB" ->
                    [ok |-> TRUE,
                     ciphertext |-> Cfb(data, subkeys, 1, options.iv, <<>>, FALSE)]
              [] mode = "OFB" ->
                    [ok |-> TRUE, ciphertext |-> Ofb(data, subkeys, 1, options.iv, <<>>)]
              [] mode = "GCM" ->
                    Only({[ok |-> TRUE, ciphertext |-> c,
                           tag |-> GcmTag(subkeys, options.iv, options.aad, c)] :
                            c \in {Ctr(data, subkeys, 1,
                                       Increment(options.iv, BlockSize), <<>>)}})
    IN  IF Sm4Problem(key, options) # "" THEN Throw(Sm4Problem(key, options))
        ELSE IF /\ mode \in BlockModes
                /\ options.padding = "NONE"
                /\ Len(plaintext) % BlockSize # 0
        THEN Throw("ValidationError: input is not block aligned")
        ELSE Only({Run(subkeys, data) :
                     subkeys \in {KeySchedule(key)},
                     data \in {IF mode \in BlockModes /\ options.padding = "PKCS7"
                               THEN Pkcs7Pad(plaintext)
                               ELSE plaintext}})

\* decrypt(key, ciphertext, options) of sm4; in GCM the options carry the
\* tag, which is recomputed and compared before anything is returned
Sm4Decrypt(key, ciphertext, options) ==
    LET mode == options.mode
        Plain(bytes) == [ok |-> TRUE, plaintext |-> bytes]
        Strip(data) ==
            IF options.padding = "PKCS7"
            THEN Only({IF u.ok THEN Plain(u.bytes) ELSE u : u \in {Pkcs7Unpad(data)}})
            ELSE Plain(data)
        Run(subkeys) ==
            CASE mode = "ECB" -> Strip(EcbDecrypt(ciphertext, subkeys, 1, <<>>))
              [] mode = "CBC" -> Strip(CbcDecrypt(ciphertext, subkeys, 1, options.iv, <<>>))
              [] mode = "CTR" -> Plain(Ctr(ciphertext, subkeys, 1, options.iv, <<>>))
              [] mode = "CFB" -> Plain(Cfb(ciphertext, subkeys, 1, options.iv, <<>>, TRUE))
              [] mode = "OFB" -> Plain(Ofb(ciphertext, subkeys, 1, options.iv, <<>>))
              [] mode = "GCM" ->
                    IF GcmTag(subkeys, options.iv, options.aad, ciphertext) # options.tag
                    THEN Throw("AuthenticationFailure: tag mismatch")
                    ELSE Plain(Ctr(ciphertext, subkeys, 1,
                                   Increment(options.iv, BlockSize), <<>>))
    IN  IF Sm4Problem(key, options) # "" THEN Throw(Sm4Problem(key, options))
        ELSE IF mode \in BlockModes /\ Len(ciphertext) % BlockSize # 0
        THEN Throw("ValidationError: input is not block aligned")
        ELSE IF mode = "GCM" /\ Len(options.tag) # TagSize
        THEN Throw("ValidationError: tag length")
        ELSE Only({Run(subkeys) : subkeys \in {KeySchedule(key)}})

\* ------------------------------------------------------------------------
\* Hash engine (specification section 4.1)
\* ------------------------------------------------------------------------

\* bytes of a block and of a digest of SM3, and of the length trailer
HashBlockSize == 64
DigestSize == 32
TrailerSize == 8

\* the initial chaining value of SM3
HashIv ==
    << 115, 128, 22, 111, 73, 20, 178, 185, 23, 36, 66, 215, 218, 138, 6, 0,
       169, 111, 48, 188, 22, 49, 56, 170, 227, 141, 238, 77, 176, 251, 14, 78 >>

\* The compression of one block into the chaining value.  The
\* specification does not give the function of SM3; a mixing of every
\* byte of the value with two bytes of the block stands for it.
Compress(value, block) ==
    [i \in 1..DigestSize |->
        (3 * value[i] + value[(i % DigestSize) + 1]
            + 5 * block[2 * i - 1] + block[2 * i] + i) % 256]

\* the chaining value after the whole blocks of d, from block i on
RECURSIVE CompressBlocks(_, _, _)
CompressBlocks(value, d, i) ==
    IF i * HashBlockSize > Len(d) THEN value
    ELSE Only({CompressBlocks(n, d, i + 1) :
                 n \in {Compress(value,
                                 SubSeq(d, HashBlockSize * (i - 1) + 1, HashBlockSize * i))}})

\* Merkle-Damgard padding of the last bytes of a message of total bytes:
\* one 1 bit, zero bits, the bit length as a big-endian trailer
HashPadding(rest, total) ==
    LET used == (Len(rest) + 1 + TrailerSize) % HashBlockSize
        fill == IF used = 0 THEN 0 ELSE HashBlockSize - used
    IN  rest \o <<128>> \o Rep(0, fill) \o Length64(8 * total)

\* digest(bytes), in one call
Digest(bytes) == CompressBlocks(HashIv, HashPadding(bytes, Len(bytes)), 1)

\* A streaming instance: the chaining value, the bytes not yet processed
\* (fewer than a block) and the number of bytes taken so far.
NewHash == [value |-> HashIv, buffer |-> <<>>, total |-> 0]

\* update(bytes): append to the buffer, process the whole blocks
HashUpdate(h, bytes) ==
    LET Take(all) ==
            LET whole == (Len(all) \div HashBlockSize) * HashBlockSize
            IN  [value  |-> CompressBlocks(h.value, all, 1),
                 buffer |-> SubSeq(all, whole + 1, Len(all)),
                 total  |-> h.total + Len(bytes)]
    IN  Only({Take(all) : all \in {h.buffer \o bytes}})

\* HashFinalize that leaves the instance as it is
HashFinalizeKeeping(h) ==
    [hash |-> CompressBlocks(h.value, HashPadding(h.buffer, h.total), 1),
     instance |-> h]

\* finalize(): the digest of the bytes taken, and the instance reset
HashFinalize(h) ==
    [hash |-> CompressBlocks(h.value, HashPadding(h.buffer, h.total), 1),
     instance |-> NewHash]

\* ------------------------------------------------------------------------
\* SM2 signatures (specification section 4.5)
\* ------------------------------------------------------------------------

\* The curve y^2 = x^3 + ax + b over the integers modulo CurveP, with the
\* base point of prime order CurveN.  A curve of 19 points stands for the
\* 256-bit curve of the standard; the operations are the same.
CurveP == 17
CurveA == 2
CurveB == 2
CurveN == 19

Infinity == [inf |-> TRUE, x |-> 0, y |-> 0]
Point(x, y) == [inf |-> FALSE, x |-> x, y |-> y]
BasePoint == Point(5, 1)

\* the inverse of a modulo the prime m, 0 when a is 0 modulo m
InverseMod(a, m) ==
    IF \E v \in 1..(m - 1) : (a * v) % m = 1
    THEN CHOOSE v \in 1..(m - 1) : (a * v) % m = 1
    ELSE 0

OnCurve(pt) ==
    /\ ~pt.inf
    /\ pt.x \in 0..(CurveP - 1)
    /\ pt.y \in 0..(CurveP - 1)
    /\ (pt.y * pt.y) % CurveP
          = (pt.x * pt.x * pt.x + CurveA * pt.x + CurveB) % CurveP

PointAdd(p1, p2) ==
    IF p1.inf THEN p2
    ELSE IF p2.inf THEN p1
    ELSE IF p1.x = p2.x /\ (p1.y + p2.y) % CurveP = 0 THEN Infinity
    ELSE LET Sum(slope) ==
                 LET x3 == (slope * slope + 2 * CurveP - p1.x - p2.x) % CurveP
                 IN  Point(x3, (slope * (p1.x + CurveP - x3) + CurveP - p1.y) % CurveP)
         IN  Only({Sum(slope) :
                     slope \in {IF p1 = p2
                                THEN ((3 * p1.x * p1.x + CurveA)
                                        * InverseMod(2 * p1.y, CurveP)) % CurveP
                                ELSE ((p2.y + CurveP - p1.y)
                                        * InverseMod(p2.x + CurveP - p1.x, CurveP))
                                        % CurveP}})

\* k times the point pt
RECURSIVE ScalarMultiply(_, _)
ScalarMultiply(k, pt) ==
    IF k = 0 THEN Infinity
    ELSE Only({PointAdd(pt, q) : q \in {ScalarMultiply(k - 1, pt)}})

\* generateKeyPair with the scalar d drawn from [1, n-1]
GenerateKeyPair(d) == [privateKey |-> d, publicKey |-> ScalarMultiply(d, BasePoint)]

\* a digest as a number modulo n: its bytes as one big-endian number
RECURSIVE ModOfBytes(_, _, _)
ModOfBytes(bytes, i, acc) ==
    IF i > Len(bytes) THEN acc
    ELSE ModOfBytes(bytes, i + 1, (256 * acc + bytes[i]) % CurveN)

\* the default user identifier, "1234567812345678"
UserId == <<49, 50, 51, 52, 53, 54, 55, 56, 49, 50, 51, 52, 53, 54, 55, 56>>

\* ZA: the hash of the identifier, the curve parameters and the public point
ZA(publicKey) ==
    Digest(<<0, 8 * Len(UserId)>> \o UserId
             \o <<CurveA, CurveB, BasePoint.x, BasePoint.y, publicKey.x, publicKey.y>>)

\* e: the hash of ZA and the message, as a number modulo n
MessageDigest(publicKey, message) ==
    Only({ModOfBytes(h, 1, 0) : h \in {Digest(ZA(publicKey) \o message)}})

\* a signature component as 32 big-endian bytes, and a raw signature
\* r || s as 128 hex characters
Component(v) == Rep(0, 31) \o <<v>>

RawSignature(r, s) == HexEncode(Component(r) \o Component(s))

\* the signing transform with the nonce k: r = (e + x1) mod n for
\* (x1, y1) = kG, s = (1 + d)^-1 (k - r d) mod n; degenerate when r = 0,
\* r + k = n or s = 0
SignTransform(d, e, k) ==
    LET Result(kG) ==
            LET r == (e + kG.x) % CurveN
                s == (InverseMod((1 + d) % CurveN, CurveN)
                        * ((k + CurveN * CurveN - r * d) % CurveN)) % CurveN
            IN  [r |-> r, s |-> s,
                 degenerate |-> r = 0 \/ r + k = CurveN \/ s = 0]
    IN  Only({Result(kG) : kG \in {ScalarMultiply(k, BasePoint)}})

\* RetryAllowed without the cap
RetryAlways(made) == TRUE

\* after made attempts, all degenerate: is there budget for another one
RetryAllowed(made) == made < MaxAttempts

\* a component of a raw signature as read by verify: big when it does not
\* fit the last byte, low its last byte
ParseComponent(bytes) ==
    [big |-> \E i \in 1..(Len(bytes) - 1) : bytes[i] # 0, low |-> bytes[Len(bytes)]]

\* the range check [1, n-1]
InRange(c) == ~c.big /\ c.low >= 1 /\ c.low <= CurveN - 1

\* VerifyEquation with t = r in the place of t = r + s
VerifyEquationWrongT(publicKey, e, r, s) ==
    LET t == r % CurveN
        Accept(pt) == ~pt.inf /\ (e + pt.x) % CurveN = r
    IN  IF t = 0 THEN FALSE
        ELSE Only({Accept(pt) :
                     pt \in {PointAdd(ScalarMultiply(s, BasePoint),
                                      ScalarMultiply(t, publicKey))}})

\* the verification transform: t = (r + s) mod n, (x1, y1) = sG + tP,
\* accept when t is not 0 and (e + x1) mod n = r
VerifyEquation(publicKey, e, r, s) ==
    LET t == (r + s) % CurveN
        Accept(pt) == ~pt.inf /\ (e + pt.x) % CurveN = r
    IN  IF t = 0 THEN FALSE
        ELSE Only({Accept(pt) :
                     pt \in {PointAdd(ScalarMultiply(s, BasePoint),
                                      ScalarMultiply(t, publicKey))}})

\* Sm2Verify that throws for a component out of range
Sm2VerifyThrowing(publicKey, message, signature) ==
    LET Check(r, s) ==
            IF ~InRange(r) \/ ~InRange(s)
            THEN Throw("CryptoError: scalar out of range")
            ELSE [ok |-> TRUE,
                  valid |-> VerifyEquation(publicKey, MessageDigest(publicKey, message),
                                           r.low, s.low)]
    IN  IF Len(signature) # 4 * DigestSize
        THEN Throw("ValidationError: signature length")
        ELSE IF ~OnCurve(publicKey) THEN Throw("CryptoError: point not on curve")
        ELSE Only({Check(ParseComponent(SubSeq(raw, 1, DigestSize)),
                         ParseComponent(SubSeq(raw, DigestSize + 1, 2 * DigestSize))) :
                     raw \in {HexDecodeBytes(signature)}})

\* verify(publicKey, message, signature) with a raw signature: a boolean,
\* false at once for a component outside [1, n-1]
Sm2Verify(publicKey, message, signature) ==
    LET Check(r, s) ==
            IF ~InRange(r) \/ ~InRange(s)
            THEN [ok |-> TRUE, valid |-> FALSE]
            ELSE [ok |-> TRUE,
                  valid |-> VerifyEquation(publicKey, MessageDigest(publicKey, message),
                                           r.low, s.low)]
    IN  IF Len(signature) # 4 * DigestSize
        THEN Throw("ValidationError: signature length")
        ELSE IF ~OnCurve(publicKey) THEN Throw("CryptoError: point not on curve")
        ELSE Only({Check(ParseComponent(SubSeq(raw, 1, DigestSize)),
                         ParseComponent(SubSeq(raw, DigestSize + 1, 2 * DigestSize))) :
                     raw \in {HexDecodeBytes(signature)}})

\* ------------------------------------------------------------------------
\* Inputs
\* ------------------------------------------------------------------------

RECURSIVE SeqsUpTo(_, _)
SeqsUpTo(S, n) ==
    IF n <= 0 THEN {<<>>}
    ELSE LET P == SeqsUpTo(S, n - 1)
         IN  P \cup {Append(p, b) : p \in P, b \in S}

\* bytes at the edges of the sign bit and of the zero stripping
ByteSamples == {0, 1, 127, 128, 255}

\* integer components: leading zero bytes, then a few significant bytes
Comps == {Rep(0, z) \o body : z \in 0..MaxLead, body \in SeqsUpTo(ByteSamples, MaxBody)}

\* a handful of short components, paired with every other one
FewComps == {<<>>, <<0>>, <<1>>, <<128>>, <<0, 1>>, <<0, 255>>}

\* component widths around the 32-byte raw width and the long-form length
CompLens == {32, 33, 127, 128}

LongComps == {<<b>> \o Rep(0, n - 1) : b \in ByteSamples, n \in CompLens}

CompPairs ==
    {<<r, s>> : r \in Comps \cup LongComps, s \in FewComps}
        \cup {<<r, s>> : r \in FewComps, s \in Comps \cup LongComps}

\* 32-byte raw components: small values, values with the top bytes set
RawComps ==
    {Rep(0, 32 - Len(body)) \o body : body \in SeqsUpTo(ByteSamples, MaxBody)}
        \cup {body \o Rep(0, 32 - Len(body)) : body \in SeqsUpTo(ByteSamples, MaxBody)}
        \cup {Rep(255, 32), Rep(128, 32)}

FewRawComps == {Rep(0, 32), Rep(0, 31) \o <<1>>, <<128>> \o Rep(0, 31), Rep(255, 32)}

RawSigs ==
    {r \o s : r \in RawComps, s \in FewRawComps}
        \cup {r \o s : r \in FewRawComps, s \in RawComps}

\* raw signatures of a wrong length: up to MaxDelta units short or long
BadRawBytes ==
    {Subarray(r \o r, 0, 64 - d) : r \in FewRawComps, d \in 1..MaxDelta}
        \cup {r \o r \o Rep(1, d) : r \in FewRawComps, d \in 1..MaxDelta}
        \cup {<<>>}

BadRawStrings ==
    {SubSeq(HexEncode(r \o r), 1, 128 - d) : r \in FewRawComps, d \in 1..MaxDelta}
        \cup {HexEncode(r \o r) \o Rep("1", d) : r \in FewRawComps, d \in 1..MaxDelta}
        \cup {<<>>} \cup {HexEncode(Subarray(r \o r, 0, 32)) : r \in FewRawComps}

\* text with a character that is no hexadecimal digit, of even length
NonHexStrings ==
    { <<"z", "z">>, <<"0", "g">>, <<"g", "1">>, <<"1", "2", "x", "y">>,
      <<"0", "x", "1", "2">>, <<"8", " ">> }

\* hex text of odd length
OddHexStrings ==
    { <<"1">>, <<"f">>, <<"1", "2", "3">>, <<"0", "0", "1">>,
      <<"8", "0", "0", "0", "1">>, <<"z">>, <<"1", "g", "2">> }

\* 128 characters, not all of them hexadecimal digits
NonHexRawStrings ==
    {Rep("z", 128)}
        \cup {<<"g">> \o SubSeq(HexEncode(r \o r), 2, 128) : r \in FewRawComps}
        \cup {SubSeq(HexEncode(r \o r), 1, 127) \o <<"G">> : r \in FewRawComps}

\* arguments of type string | Uint8Array handed to the encoders
ValueArgs ==
    {Str(HexEncode(c)) : c \in Comps \cup LongComps}
        \cup {Bytes(c) : c \in Comps \cup LongComps}
        \cup {Str(h) : h \in NonHexStrings \cup OddHexStrings}

\* pairs (r, s) handed to encodeSignature
ValuePairs ==
    {<<Str(HexEncode(p[1])), Str(HexEncode(p[2]))>> : p \in CompPairs}
        \cup {<<Bytes(p[1]), Bytes(p[2])>> : p \in CompPairs}
        \cup {<<Str(h), g>> : h \in NonHexStrings \cup OddHexStrings,
                              g \in {Str(<<"0", "1">>), Bytes(<<1>>), Str(<<"z", "z">>)}}
        \cup {<<g, Str(h)>> : h \in NonHexStrings \cup OddHexStrings,
                              g \in {Str(<<"0", "1">>), Bytes(<<1>>), Str(<<"1">>)}}

\* plaintext lengths around each multiple of the block size
PlainLengths ==
    {n \in UNION {{b * BlockSize - 1, b * BlockSize, b * BlockSize + 1} : b \in 0..MaxBlocks} :
        n >= 0}

\* plaintexts of one repeated byte and of bytes that all differ
Plaintexts ==
    {Rep(65, n) : n \in PlainLengths}
        \cup {[i \in 1..n |-> (37 * i) % 256] : n \in PlainLengths}

\* keys and IVs: those of the tests, constant ones, and a key of 15 bytes
Sm4Keys ==
    { <<1, 35, 69, 103, 137, 171, 205, 239, 254, 220, 186, 152, 118, 84, 50, 16>>,
      Rep(0, BlockSize), Rep(1, BlockSize - 1) }

Sm4Ivs ==
    { <<254, 220, 186, 152, 118, 84, 50, 16, 1, 35, 69, 103, 137, 171, 205, 239>>,
      Rep(255, BlockSize) }

\* options of encrypt: ECB takes no IV, GCM takes additional data
Sm4Options ==
    {[mode |-> "ECB", padding |-> pd, iv |-> <<>>, aad |-> <<>>] : pd \in PaddingModes}
        \cup {[mode |-> m, padding |-> pd, iv |-> iv, aad |-> <<>>] :
                m \in CipherModes \ {"ECB"}, pd \in PaddingModes, iv \in Sm4Ivs}
        \cup {[mode |-> "GCM", padding |-> "NONE", iv |-> iv, aad |-> <<1, 2, 3>>] :
                iv \in Sm4Ivs}

\* two equal blocks whose CBC encryption under the key and the IV starts
\* with the IV itself
ChainedBlocks(key, iv) ==
    IF Len(key) = BlockSize /\ Len(iv) = BlockSize
    THEN {b \o b : b \in {XorBytes(DecryptBlock(iv, KeySchedule(key)), iv)}}
    ELSE {}

\* byte strings handed to update: none, one byte, the most that leaves
\* room for the padding in the same block, a whole block, a block and a byte
Chunks ==
    { <<>>, <<97>>, Rep(98, HashBlockSize - TrailerSize - 1), Rep(99, HashBlockSize),
      [i \in 1..(HashBlockSize + 1) |-> i] }

\* messages to sign: "hi", two messages that differ from it in one byte,
\* the second with the same digest e modulo n under every key, and the
\* empty message
Messages == {<<104, 105>>, <<104, 106>>, <<104, 124>>, <<>>}

\* private scalars of generated key pairs: all of [1, n-1]
Scalars == 1..(CurveN - 1)

\* the scalars of the key pairs whose public key is tried on a signature
OtherScalars == {1, 7}

\* components of signatures not made by sign: 0, in range, n - 1, n,
\* n + 1, 255 and 2^248 + 5
ForgedComponents ==
    {Component(v) : v \in {0, 1, 9, CurveN - 1, CurveN, CurveN + 1, 255}}
        \cup {<<1>> \o Rep(0, 30) \o <<5>>}

ForgedSignatures ==
    {HexEncode(r \o s) : r \in ForgedComponents, s \in ForgedComponents}
        \cup {HexEncode(Component(1)), HexEncode(Component(1) \o Component(1) \o <<1>>)}

\* lengths at the edges of the short form and of each long-form width
LengthSamples ==
    {0, 1, 127, 128, 255, 256, 65535, 65536, 16777215, 16777216, 2147483647}

\* low bytes of generated long-form length fields; 249..251 make a 4-byte
\* field of ff bytes read as -7..-5
LoSamples == (0..MaxContent) \cup {249, 250, 251}

LenFields ==
    {<<n>> : n \in 0..(MaxContent + 1)}
        \cup {<<128 + k>> \o Rep(fill, k - 1) \o <<lo>> :
                k \in 1..5, fill \in {0, 128, 255}, lo \in LoSamples}
        \cup {<<128>>, <<255>>}

\* the fields and every truncation of them
FieldsT == UNION {{SubSeq(f, 1, j) : j \in 1..Len(f)} : f \in LenFields}

Contents == SeqsUpTo({0, 1, 128}, MaxContent)

\* tag-length-value strings, well formed and not
DerValues == {<<tag>> \o f \o c : tag \in {TagInteger, TagSequence}, f \in FieldsT, c \in Contents}

\* INTEGER encodings produced by the encoder, alone or followed by a byte
EncodedInts ==
    {EncodeIntegerBytes(c) \o t : c \in Comps \cup LongComps, t \in {<<>>, <<1>>}}

\* buffers handed to decodeInteger together with the offset to read at
IntInputs ==
    {[data |-> pre \o d, offset |-> Len(pre)] :
        pre \in {<<>>, <<0>>}, d \in DerValues \cup EncodedInts}
        \cup {[data |-> d, offset |-> o] : d \in {<<>>, <<2>>, <<2, 1, 1>>}, o \in {-1, 3, 4}}

\* elements put in generated SEQUENCEs
ElemSamples ==
    { <<2, 1, 1>>,                   \* INTEGER 1
      <<2, 2, 0, 128>>,              \* INTEGER 128, padded
      <<2, 0>>,                      \* INTEGER without content
      <<4, 1, 1>>,                   \* OCTET STRING
      <<2, 2, 1>>,                   \* declared 2 content bytes, has 1
      <<2, 3, 0, 0, 1>>,             \* INTEGER with two leading zero bytes
      <<2, 132, 255, 255, 255, 250>>,\* 4-byte length ff ff ff fa
      <<2, 132, 255, 255, 255, 249>>,\* 4-byte length ff ff ff f9
      <<2, 128>>,                    \* long form announcing 0 bytes
      <<2, 133, 0, 0, 0, 0, 1, 1>>,  \* long form announcing 5 bytes
      <<2, 129, 1, 1>> }             \* long form for a length below 128

ElemLists == SeqsUpTo(ElemSamples, MaxElems)

\* length fields put on a SEQUENCE whose content has n bytes
OuterFields(n) ==
    {EncodeLength(n), <<n + 1>>, <<129, n>>, <<132, 255, 255, 255, 255>>}
        \cup (IF n > 0 THEN {<<n - 1>>} ELSE {})

SeqValues ==
    UNION {{<<tag>> \o f \o Concat(es) \o t :
              tag \in {TagSequence}, f \in OuterFields(Len(Concat(es))), t \in {<<>>, <<1>>}}
           : es \in ElemLists}
        \cup {<<TagInteger>> \o EncodeLength(Len(Concat(es))) \o Concat(es) : es \in ElemLists}
        \cup {<<>>, <<48>>, <<48, 130, 0>>}

\* well-formed elements handed to encodeSequence: INTEGERs, an OCTET
\* STRING, a NULL without content, a nested SEQUENCE, and an INTEGER of 128
\* content bytes, whose length takes the long form
WellElems ==
    { <<2, 1, 1>>, <<2, 2, 0, 128>>, <<4, 1, 1>>, <<5, 0>>, <<48, 3, 2, 1, 1>>,
      EncodeIntegerBytes(<<1>> \o Rep(0, 127)) }

WellLists == SeqsUpTo(WellElems, MaxElems)

\* values of the INTEGER that follows another one in a buffer; the empty
\* one stands for no INTEGER following
Followers == {<<>>, <<1>>, <<0, 128>>, <<255, 0>>}

\* signatures handed to signatureToXml: DER signatures of 8, 64, 70 and
\* 72 bytes, and raw signatures, one of them with 0x30 as its first byte
XmlDerSignatures ==
    {EncodeSequence(<<EncodeIntegerBytes(c), EncodeIntegerBytes(c)>>) :
        c \in {<<1>>, Rep(1, 29), Rep(1, 32), Rep(255, 32)}}

XmlRawSignatures ==
    {r \o s : r \in {Rep(0, 31) \o <<1>>, Rep(255, 32), <<48>> \o Rep(0, 31)},
              s \in {Rep(0, 31) \o <<1>>, Rep(255, 32)}}

XmlArgs ==
    {Bytes(b) : b \in XmlDerSignatures \cup XmlRawSignatures}
        \cup {Str(HexEncode(b)) : b \in XmlDerSignatures \cup XmlRawSignatures}

\* the optional argument isDer
IsDerArgs == {"true", "false", "omitted"}

\* signatures produced by the encoder
EncodedSigs ==
    {EncodeSequence(<<EncodeIntegerBytes(p[1]), EncodeIntegerBytes(p[2])>>) : p \in CompPairs}

SigInputs == SeqValues \cup EncodedSigs

\* ------------------------------------------------------------------------
\* Calls
\* ------------------------------------------------------------------------

VARIABLES
    fn,         \* the function called last
    arg,        \* its arguments
    out,        \* its outcome
    prev,       \* the call whose result was passed on as the argument
    pc,         \* "idle", "loop" inside decodeSequence's element loop,
                \* "done", "written" after a write to the source array
    pos,        \* decodeSequence: read position
    contentEnd, \* decodeSequence: end of the content
    elements,   \* decodeSequence: elements collected so far
    source,     \* decodeInteger, decodeSequence: the bytes of the array
                \* passed as data, as they are now
    views,      \* decodeInteger, decodeSequence: the array objects returned
    attempts,   \* SM2 sign: attempts made so far
    nonce,      \* SM2 sign: the nonce of the last attempt
    digest,     \* SM2 sign: e, computed once before the first attempt
    hasher,     \* the streaming hash instance
    calls       \* the calls made on the streaming hash instance

vars == <<fn, arg, out, prev, pc, pos, contentEnd, elements, source, views,
          attempts, nonce, digest, hasher, calls>>

\* the variables of the SM2 and hash engines
engineVars == <<attempts, nonce, digest, hasher, calls>>

NoCall == [fn |-> "none"]

Init ==
    /\ fn = "none"
    /\ arg = [none |-> TRUE]
    /\ out = [ok |-> FALSE, err |-> "not called"]
    /\ prev = NoCall
    /\ pc = "idle"
    /\ pos = 0
    /\ contentEnd = 0
    /\ elements = <<>>
    /\ source = <<>>
    /\ views = <<>>
    /\ attempts = 0
    /\ nonce = 0
    /\ digest = 0
    /\ hasher = NewHash
    /\ calls = <<>>

\* a call that runs to its end in one step, on the source array src, and
\* returns the array objects vw
CallOn(f, a, o, p, src, vw) ==
    /\ fn' = f
    /\ arg' = a
    /\ out' = o
    /\ prev' = p
    /\ pc' = "done"
    /\ pos' = 0
    /\ contentEnd' = 0
    /\ elements' = <<>>
    /\ source' = src
    /\ views' = vw
    /\ UNCHANGED engineVars

\* a call whose arrays are not followed
Call(f, a, o, p) == CallOn(f, a, o, p, <<>>, <<>>)

CallEncodeLength ==
    /\ pc = "idle"
    /\ \E n \in LengthSamples :
        Call("encodeLength", [length |-> n], [ok |-> TRUE, bytes |-> EncodeLength(n)], NoCall)

CallDecodeLength ==
    /\ pc = "idle"
    /\ \E f \in FieldsT, pre \in {<<>>, <<2>>}, o \in {-1, 0, 1, 2} :
        Call("decodeLength", [data |-> pre \o f, offset |-> o],
             DecodeLength(pre \o f, o), NoCall)

\* decodeLength(encodeLength(n), 0)
CallDecodeLengthOfEncoded ==
    /\ fn = "encodeLength"
    /\ Call("decodeLength", [data |-> out.bytes, offset |-> 0],
            DecodeLength(out.bytes, 0), [fn |-> fn, arg |-> arg])

CallEncodeInteger ==
    /\ pc = "idle"
    /\ \E a \in ValueArgs :
        Call("encodeInteger", [value |-> a], EncodeInteger(a), NoCall)

CallDecodeInteger ==
    /\ pc = "idle"
    /\ \E i \in IntInputs :
        \E o \in {DecodeInteger(i.data, i.offset)} :
            CallOn("decodeInteger", i, o, NoCall, i.data,
                   IF o.ok THEN <<DecodeIntegerView(i.data, i.offset)>> ELSE <<>>)

\* decodeInteger(encodeInteger(v)), alone in the buffer or followed by
\* the encoding of a second INTEGER
CallDecodeIntegerOfEncoded ==
    /\ fn = "encodeInteger"
    /\ prev = NoCall
    /\ out.ok
    /\ \E w \in Followers :
        \E data \in {out.der \o (IF w = <<>> THEN <<>> ELSE EncodeIntegerBytes(w))} :
            \E o \in {DecodeInteger(data, 0)} :
                CallOn("decodeInteger", [data |-> data, offset |-> 0], o,
                       [fn |-> fn, arg |-> arg, then |-> w], data,
                       IF o.ok THEN <<DecodeIntegerView(data, 0)>> ELSE <<>>)

\* the second INTEGER of the buffer, read at the offset advanced by the
\* bytesRead of the first
CallDecodeIntegerNext ==
    /\ fn = "decodeInteger"
    /\ prev.fn = "encodeInteger"
    /\ out.ok
    /\ prev.then # <<>>
    /\ \E at \in {arg.offset + out.bytesRead} :
        \E o \in {DecodeInteger(arg.data, at)} :
            CallOn("decodeInteger", [data |-> arg.data, offset |-> at], o,
                   [fn |-> fn, arg |-> arg, out |-> out, then |-> prev.then], arg.data,
                   IF o.ok THEN <<DecodeIntegerView(arg.data, at)>> ELSE <<>>)

\* encodeInteger of the value that decodeInteger returned
CallEncodeIntegerOfDecoded ==
    /\ fn = "decodeInteger"
    /\ prev.fn = "encodeInteger"
    /\ out.ok
    /\ Call("encodeInteger", [value |-> Bytes(out.value)],
            EncodeInteger(Bytes(out.value)),
            [fn |-> fn, arg |-> arg, out |-> out, then |-> prev.then])

CallEncodeSignature ==
    /\ pc = "idle"
    /\ \E p \in ValuePairs :
        Call("encodeSignature", [r |-> p[1], s |-> p[2]],
             EncodeSignature(p[1], p[2]), NoCall)

CallDecodeSignature ==
    /\ pc = "idle"
    /\ \E d \in SigInputs :
        Call("decodeSignature", [signature |-> d], DecodeSignature(d), NoCall)

\* decodeSignature(encodeSignature(r, s))
CallDecodeSignatureOfEncoded ==
    /\ fn = "encodeSignature"
    /\ out.ok
    /\ Call("decodeSignature", [signature |-> out.der],
            DecodeSignature(out.der), [fn |-> fn, arg |-> arg])

\* arguments of rawToDer, of the required length and not
RawArgs ==
    {Str(HexEncode(raw)) : raw \in RawSigs} \cup {Bytes(raw) : raw \in RawSigs}
        \cup {Bytes(b) : b \in BadRawBytes} \cup {Str(h) : h \in BadRawStrings}
        \cup {Str(h) : h \in NonHexRawStrings}

CallRawToDer ==
    /\ pc = "idle"
    /\ \E a \in RawArgs :
        Call("rawToDer", [rawSignature |-> a], RawToDer(a), NoCall)

CallDerToRaw ==
    /\ pc = "idle"
    /\ \E d \in SigInputs :
        Call("derToRaw", [derSignature |-> d], DerToRaw(d), NoCall)

\* derToRaw(rawToDer(s))
CallDerToRawOfConverted ==
    /\ fn = "rawToDer"
    /\ out.ok
    /\ Call("derToRaw", [derSignature |-> out.der],
            DerToRaw(out.der), [fn |-> fn, arg |-> arg])

\* rawToDer(derToRaw(d))
CallRawToDerOfConverted ==
    /\ fn = "derToRaw"
    /\ prev = NoCall
    /\ out.ok
    /\ Call("rawToDer", [rawSignature |-> Str(out.raw)],
            RawToDer(Str(out.raw)), [fn |-> fn, arg |-> arg])

CallSignatureToXml ==
    /\ pc = "idle"
    /\ \E a \in XmlArgs, isDer \in IsDerArgs :
        Call("signatureToXml", [signature |-> a, isDer |-> isDer],
             SignatureToXml(a, isDer), NoCall)

\* decodeSequence, up to the entry of its element loop
CallDecodeSequence ==
    \E d \in SigInputs, pre \in {<<>>, <<0>>} :
        LET data == pre \o d
            h    == DecodeSequenceHead(data, Len(pre))
        IN  /\ pc = "idle"
            /\ fn' = "decodeSequence"
            /\ arg' = [data |-> data, offset |-> Len(pre)]
            /\ prev' = NoCall
            /\ elements' = <<>>
            /\ source' = data
            /\ views' = <<>>
            /\ UNCHANGED engineVars
            /\ IF h.ok
               THEN /\ pc' = "loop"
                    /\ pos' = h.contentStart
                    /\ contentEnd' = h.contentEnd
                    /\ out' = [ok |-> FALSE, err |-> "running"]
               ELSE /\ pc' = "done"
                    /\ pos' = 0
                    /\ contentEnd' = 0
                    /\ out' = h

CallEncodeSequence ==
    /\ pc = "idle"
    /\ \E es \in WellLists :
        Call("encodeSequence", [elements |-> es],
             [ok |-> TRUE, der |-> EncodeSequence(es)], NoCall)

\* decodeSequence(encodeSequence(e1, ..., en)), up to the entry of its
\* element loop
CallDecodeSequenceOfEncoded ==
    /\ fn = "encodeSequence"
    /\ pc = "done"
    /\ \E h \in {DecodeSequenceHead(out.der, 0)} :
        /\ fn' = "decodeSequence"
        /\ arg' = [data |-> out.der, offset |-> 0]
        /\ prev' = [fn |-> fn, arg |-> arg]
        /\ elements' = <<>>
        /\ source' = out.der
        /\ views' = <<>>
        /\ UNCHANGED engineVars
        /\ IF h.ok
           THEN /\ pc' = "loop"
                /\ pos' = h.contentStart
                /\ contentEnd' = h.contentEnd
                /\ out' = [ok |-> FALSE, err |-> "running"]
           ELSE /\ pc' = "done"
                /\ pos' = 0
                /\ contentEnd' = 0
                /\ out' = h

\* one iteration of the element loop
DecodeSequenceIterate ==
    /\ pc = "loop"
    /\ pos < contentEnd
    /\ Len(elements) < MaxIter
    /\ LET b == DecodeSequenceBody(arg.data, pos)
       IN  IF b.ok
           THEN /\ elements' = Append(elements, b.element)
                /\ views' = Append(views, DecodeSequenceElementView(arg.data, pos))
                /\ pos' = b.pos
                /\ UNCHANGED <<pc, out>>
           ELSE /\ pc' = "done"
                /\ out' = b
                /\ UNCHANGED <<pos, elements, views>>
    /\ UNCHANGED <<fn, arg, prev, contentEnd, source>>
    /\ UNCHANGED engineVars

\* the loop condition fails: decodeSequence returns
DecodeSequenceReturn ==
    /\ pc = "loop"
    /\ ~(pos < contentEnd)
    /\ pc' = "done"
    /\ out' = [ok |-> TRUE, elements |-> elements,
               bytesRead |-> DecodeSequenceHead(arg.data, arg.offset).bytesRead]
    /\ UNCHANGED <<fn, arg, prev, pos, contentEnd, elements, source, views>>
    /\ UNCHANGED engineVars

\* offsets at the edges of the returned views and of the source array
EdgeOffsets ==
    {0, Len(source) - 1}
        \cup UNION {IF v.shared THEN {v.from - 1, v.from, v.to - 1, v.to} ELSE {}
                     : v \in {views[k] : k \in 1..Len(views)}}

\* the caller writes one byte of the source array after the decoder
\* returned: source[i] = b
WriteSource ==
    /\ pc = "done"
    /\ fn \in {"decodeInteger", "decodeSequence"}
    /\ out.ok
    /\ \E i \in EdgeOffsets :
        /\ i >= 0
        /\ i < Len(source)
        /\ source' = [source EXCEPT ![i + 1] = 255 - source[i + 1]]
    /\ pc' = "written"
    /\ UNCHANGED <<fn, arg, out, prev, pos, contentEnd, elements, views>>
    /\ UNCHANGED engineVars

CallSm4Encrypt ==
    /\ pc = "idle"
    /\ \E key \in Sm4Keys, options \in Sm4Options :
        \E plaintext \in Plaintexts \cup ChainedBlocks(key, options.iv) :
            Call("sm4.encrypt",
                 [key |-> key, plaintext |-> plaintext, options |-> options],
                 Sm4Encrypt(key, plaintext, options), NoCall)

\* decrypt(key, encrypt(key, plaintext, options), options), the tag of
\* GCM passed on in the options
CallSm4DecryptOfEncrypted ==
    /\ fn = "sm4.encrypt"
    /\ out.ok
    /\ \E options \in {[mode |-> arg.options.mode, padding |-> arg.options.padding,
                         iv |-> arg.options.iv, aad |-> arg.options.aad,
                         tag |-> IF arg.options.mode = "GCM" THEN out.tag ELSE <<>>]} :
        Call("sm4.decrypt",
             [key |-> arg.key, ciphertext |-> out.ciphertext, options |-> options],
             Sm4Decrypt(arg.key, out.ciphertext, options), [fn |-> fn, arg |-> arg])

NextSm4 ==
    \/ CallSm4Encrypt
    \/ CallSm4DecryptOfEncrypted

SpecSm4 == Init /\ [][NextSm4]_vars

\* update(bytes) on the streaming instance
CallHashUpdate ==
    /\ Len(calls) < MaxCalls
    /\ \E bytes \in Chunks :
        /\ hasher' = HashUpdate(hasher, bytes)
        /\ calls' = Append(calls, [op |-> "update", bytes |-> bytes])
        /\ fn' = "hash.update"
        /\ arg' = [bytes |-> bytes]
        /\ out' = [ok |-> TRUE]
    /\ pc' = "done"
    /\ UNCHANGED <<prev, pos, contentEnd, elements, source, views, attempts, nonce, digest>>

\* finalize() on the streaming instance
CallHashFinalize ==
    /\ Len(calls) < MaxCalls
    /\ \E f \in {HashFinalize(hasher)} :
        /\ hasher' = f.instance
        /\ out' = [ok |-> TRUE, hash |-> f.hash]
    /\ calls' = Append(calls, [op |-> "finalize", bytes |-> <<>>])
    /\ fn' = "hash.finalize"
    /\ arg' = [none |-> TRUE]
    /\ pc' = "done"
    /\ UNCHANGED <<prev, pos, contentEnd, elements, source, views, attempts, nonce, digest>>

NextHash ==
    \/ CallHashUpdate
    \/ CallHashFinalize

SpecHash == Init /\ [][NextHash]_vars

\* sign(privateKey, message), up to the entry of its retry loop
CallSm2Sign ==
    /\ pc = "idle"
    /\ \E d \in Scalars, message \in Messages :
        /\ fn' = "sm2.sign"
        /\ arg' = [privateKey |-> d, message |-> message]
        /\ digest' = MessageDigest(GenerateKeyPair(d).publicKey, message)
    /\ out' = [ok |-> FALSE, err |-> "running"]
    /\ prev' = NoCall
    /\ pc' = "sign"
    /\ attempts' = 0
    /\ nonce' = 0
    /\ UNCHANGED <<pos, contentEnd, elements, source, views, hasher, calls>>

\* one attempt: a nonce from the randomness source, the transform, and
\* either the signature, another attempt, or the fatal error
Sm2SignAttempt ==
    /\ pc = "sign"
    /\ \E k \in 1..(CurveN - 1) :
        \E t \in {SignTransform(arg.privateKey, digest, k)} :
            /\ nonce' = k
            /\ attempts' = attempts + 1
            /\ IF ~t.degenerate
               THEN /\ pc' = "done"
                    /\ out' = [ok |-> TRUE, signature |-> RawSignature(t.r, t.s)]
               ELSE IF RetryAllowed(attempts + 1)
               THEN UNCHANGED <<pc, out>>
               ELSE /\ pc' = "done"
                    /\ out' = Throw("CryptoError: signing retry budget exhausted")
    /\ UNCHANGED <<fn, arg, prev, pos, contentEnd, elements, source, views, digest,
                   hasher, calls>>

\* verify(publicKey, message, sign(privateKey, message)), and the same
\* signature against another public key or another message
CallSm2VerifyOfSigned ==
    /\ fn = "sm2.sign"
    /\ pc = "done"
    /\ out.ok
    /\ \E d \in OtherScalars \cup {arg.privateKey}, message \in Messages :
        \E publicKey \in {GenerateKeyPair(d).publicKey} :
            Call("sm2.verify",
                 [publicKey |-> publicKey, message |-> message, signature |-> out.signature],
                 Sm2Verify(publicKey, message, out.signature), [fn |-> fn, arg |-> arg])

\* verify of a signature that sign did not make
CallSm2Verify ==
    /\ pc = "idle"
    /\ \E publicKey \in {GenerateKeyPair(d).publicKey : d \in OtherScalars} \cup {Point(5, 2)},
          message \in {<<104, 105>>}, signature \in ForgedSignatures :
        Call("sm2.verify",
             [publicKey |-> publicKey, message |-> message, signature |-> signature],
             Sm2Verify(publicKey, message, signature), NoCall)

NextSm2 ==
    \/ CallSm2Sign
    \/ Sm2SignAttempt
    \/ CallSm2VerifyOfSigned
    \/ CallSm2Verify

\* an attempt, once begun, is carried out: sign runs to completion
SpecSm2 == Init /\ [][NextSm2]_vars /\ WF_vars(Sm2SignAttempt)

Next ==
    \/ CallEncodeLength
    \/ CallDecodeLength
    \/ CallDecodeLengthOfEncoded
    \/ CallEncodeInteger
    \/ CallDecodeInteger
    \/ CallDecodeIntegerOfEncoded
    \/ CallDecodeIntegerNext
    \/ CallEncodeIntegerOfDecoded
    \/ CallEncodeSignature
    \/ CallDecodeSignature
    \/ CallDecodeSignatureOfEncoded
    \/ CallRawToDer
    \/ CallDerToRaw
    \/ CallDerToRawOfConverted
    \/ CallRawToDerOfConverted
    \/ CallSignatureToXml
    \/ CallDecodeSequence
    \/ CallEncodeSequence
    \/ CallDecodeSequenceOfEncoded
    \/ DecodeSequenceIterate
    \/ DecodeSequenceReturn
    \/ WriteSource

Spec == Init /\ [][Next]_vars

\* ------------------------------------------------------------------------
\* Vocabulary of the properties
\* ------------------------------------------------------------------------

\* the text has a character that is no hexadecimal digit
NonHex(h) == \E i \in 1..Len(h) : DigitVal(h[i]) = Undefined

\* the argument is a string with a character that is no hexadecimal digit
NonHexArg(a) == a.type = "string" /\ NonHex(a.v)

\* the argument is a string of odd length
OddArg(a) == a.type = "string" /\ Len(a.v) % 2 = 1

\* the text is made of the digits 0-9 and a-f
LowerHex(h) == \A i \in 1..Len(h) : \E k \in 1..16 : HexDigits[k] = h[i]

\* the argument is a byte array or lowercase hex text of even length
HexArg(a) == a.type = "bytes" \/ (LowerHex(a.v) /\ Len(a.v) % 2 = 0)

\* the bytes an argument of type string | Uint8Array stands for
ArgBytes(a) == IF a.type = "string" THEN HexDecodeBytes(a.v) ELSE a.v

\* the lowercase hex text an argument stands for
ArgHex(a) == IF a.type = "string" THEN a.v ELSE HexEncode(a.v)

\* v without its leading 0x00 bytes, the last byte of v always kept
RECURSIVE Canonical(_)
Canonical(v) == IF Len(v) > 1 /\ v[1] = 0 THEN Canonical(Tail(v)) ELSE v

\* the content of the DER INTEGER holding the non-negative value v
IntegerContent(v) ==
    LET c == Canonical(v)
    IN  IF c # <<>> /\ c[1] >= 128 THEN <<0>> \o c ELSE c

\* X.690 definite length of n, 0 <= n < 2^31
DerLength(n) ==
    IF n < 128 THEN <<n>>
    ELSE IF n < 256 THEN <<129, n>>
    ELSE IF n < 65536 THEN <<130, n \div 256, n % 256>>
    ELSE IF n < 16777216 THEN <<131, n \div 65536, (n \div 256) % 256, n % 256>>
    ELSE <<132, n \div 16777216, (n \div 65536) % 256, (n \div 256) % 256, n % 256>>

\* a first length byte that announces no or more than 4 length bytes
BadLengthByte(b) == b = 128 \/ (b >= 133 /\ b <= 255)

\* number of length bytes after the first one, as the first one announces
Announced(b) == IF b >= 128 THEN b - 128 ELSE 0

\* the length field at offset lo of data is cut off by the end of data
TruncatedLength(data, lo) ==
    \/ lo >= Len(data)
    \/ /\ At(data, lo) >= 129
       /\ At(data, lo) <= 132
       /\ lo + 1 + Announced(At(data, lo)) > Len(data)

\* the length field at offset lo of data is complete and supported
CompleteLength(data, lo) ==
    /\ lo >= 0
    /\ lo < Len(data)
    /\ ~BadLengthByte(At(data, lo))
    /\ ~TruncatedLength(data, lo)

\* a complete length field whose unsigned value is 2^31 or more
HugeLength(data, lo) ==
    /\ CompleteLength(data, lo)
    /\ At(data, lo) = 132
    /\ At(data, lo + 1) >= 128

\* unsigned big-endian value of the k bytes of data from offset lo
RECURSIVE Unsigned(_, _, _)
Unsigned(data, lo, k) ==
    IF k = 0 THEN 0 ELSE 256 * Unsigned(data, lo, k - 1) + At(data, lo + k - 1)

\* the declared length of a complete length field below 2^31
Declared(data, lo) ==
    IF At(data, lo) < 128 THEN At(data, lo)
    ELSE Unsigned(data, lo + 1, Announced(At(data, lo)))

\* offset of the first content byte of the TLV at offset
ContentAt(data, offset) == offset + 2 + Announced(At(data, offset + 1))

\* the TLV at offset has the tag, a complete length and its whole content
WellFormedAt(data, offset, tag) ==
    /\ offset >= 0
    /\ At(data, offset) = tag
    /\ CompleteLength(data, offset + 1)
    /\ ~HugeLength(data, offset + 1)
    /\ ContentAt(data, offset) + Declared(data, offset + 1) <= Len(data)

\* the TLV at offset is malformed: wrong tag, truncated length field, or
\* a declared content that runs past the end of the buffer
MalformedAt(data, offset, tag) ==
    \/ At(data, offset) # tag
    \/ TruncatedLength(data, offset + 1)
    \/ HugeLength(data, offset + 1)
    \/ /\ CompleteLength(data, offset + 1)
       /\ ~HugeLength(data, offset + 1)
       /\ ContentAt(data, offset) + Declared(data, offset + 1) > Len(data)

\* the declared content of a well-formed TLV
ContentOf(data, offset) ==
    SubSeq(data, ContentAt(data, offset) + 1,
           ContentAt(data, offset) + Declared(data, offset + 1))

\* ------------------------------------------------------------------------
\* Properties
\* ------------------------------------------------------------------------

\* C1: for every raw signature s given as a string of 128 characters 0-9
\* and a-f, rawToDer accepts s and derToRaw(rawToDer(s)) = s.
C1_RawDerRawRoundTrip ==
    /\ (fn = "rawToDer" /\ arg.rawSignature.type = "string"
            /\ Len(arg.rawSignature.v) = 128 /\ LowerHex(arg.rawSignature.v))
          => out.ok
    /\ (fn = "derToRaw" /\ prev.fn = "rawToDer"
            /\ prev.arg.rawSignature.type = "string"
            /\ LowerHex(prev.arg.rawSignature.v))
          => (out.ok /\ out.raw = prev.arg.rawSignature.v)

\* a round trip of a raw string whose r starts with a zero byte and whose s
\* has the top bit set
C1_Witness ==
    /\ fn = "derToRaw"
    /\ prev.fn = "rawToDer"
    /\ prev.arg.rawSignature.type = "string"
    /\ out.ok
    /\ out.raw[1] = "0" /\ out.raw[2] = "0"
    /\ out.raw[65] = "f"

\* C2 as stated: for r and s given as bytes or as lowercase hex text of even
\* length, decodeSignature(encodeSignature(r, s)) returns exactly the hex
\* text of r and of s, whatever their length.
C2_ExactRoundTrip ==
    (fn = "decodeSignature" /\ prev.fn = "encodeSignature"
        /\ HexArg(prev.arg.r) /\ HexArg(prev.arg.s))
        => /\ out.ok
           /\ out.r = ArgHex(prev.arg.r)
           /\ out.s = ArgHex(prev.arg.s)

\* C2 amended: for r and s given as bytes or as lowercase hex text of even
\* length, decodeSignature(encodeSignature(r, s)) returns the lowercase
\* hex text of r and of s without their leading 0x00 bytes (the last byte
\* kept), hence exactly (r, s) when neither has such a leading byte.
C2_CanonicalRoundTrip ==
    (fn = "decodeSignature" /\ prev.fn = "encodeSignature"
        /\ HexArg(prev.arg.r) /\ HexArg(prev.arg.s))
        => LET rb == ArgBytes(prev.arg.r)
               sb == ArgBytes(prev.arg.s)
           IN  /\ out.ok
               /\ out.r = HexEncode(Canonical(rb))
               /\ out.s = HexEncode(Canonical(sb))
               /\ (Canonical(rb) = rb /\ Canonical(sb) = sb)
                     => (out.r = ArgHex(prev.arg.r) /\ out.s = ArgHex(prev.arg.s))

\* a round trip whose r had a leading zero byte in front of a byte with the
\* top bit set
C2_Witness ==
    /\ fn = "decodeSignature"
    /\ prev.fn = "encodeSignature"
    /\ out.ok
    /\ ArgBytes(prev.arg.r) = <<0, 0, 255>>
    /\ out.r = <<"f", "f">>

\* C3: for a non-empty input v (bytes, or lowercase hex text of even
\* length), encodeInteger(v) is 02, the DER length of
\* the content, and the content: v without its leading zero bytes (last
\* byte kept), preceded by one 00 iff its first byte is >= 0x80; an all-zero
\* v gives 02 01 00; the content never starts with a redundant 00.
C3_EncodeIntegerMinimal ==
    (fn = "encodeInteger" /\ HexArg(arg.value) /\ ArgBytes(arg.value) # <<>>)
        => LET v   == ArgBytes(arg.value)
               c   == IntegerContent(v)
               hdr == 2 + Announced(out.der[2])
               content == SubSeq(out.der, hdr + 1, Len(out.der))
           IN  /\ out.ok
               /\ out.der = <<TagInteger>> \o DerLength(Len(c)) \o c
               /\ (\A i \in 1..Len(v) : v[i] = 0) => out.der = <<2, 1, 0>>
               /\ Len(content) >= 1
               /\ (Len(content) > 1 /\ content[1] = 0) => content[2] >= 128

\* an encoding that stripped two zero bytes and then added the pad byte
C3_Witness ==
    /\ fn = "encodeInteger"
    /\ arg.value.type = "bytes"
    /\ arg.value.v = <<0, 0, 128, 1>>
    /\ out.der = <<2, 3, 0, 128, 1>>

\* C4: decodeInteger of a well-formed INTEGER returns its content without
\* the first byte when the content is longer than one byte and starts with
\* 00, and the content unchanged otherwise.
C4_DecodeIntegerStripsOnePad ==
    (fn = "decodeInteger" /\ WellFormedAt(arg.data, arg.offset, TagInteger))
        => LET c == ContentOf(arg.data, arg.offset)
           IN  /\ out.ok
               /\ out.value = IF Len(c) > 1 /\ c[1] = 0 THEN Tail(c) ELSE c

\* the content 00 00 decoded to 00: the second zero byte stays
C4_Witness ==
    /\ fn = "decodeInteger"
    /\ arg.data = <<2, 2, 0, 0>>
    /\ arg.offset = 0
    /\ out.ok
    /\ out.value = <<0>>

\* C5: decodeInteger and decodeSequence throw for every input with a wrong
\* tag, a truncated length field or a declared content past the end of the
\* buffer.
C5_MalformedThrows ==
    /\ (fn = "decodeInteger" /\ MalformedAt(arg.data, arg.offset, TagInteger))
          => ~out.ok
    /\ (fn = "decodeSequence" /\ pc = "done"
            /\ MalformedAt(arg.data, arg.offset, TagSequence))
          => ~out.ok

\* C6: each iteration of decodeSequence's element loop advances the read
\* position by at least one byte.
C6_LoopAdvances ==
    [][(pc = "loop" /\ pc' = "loop") => pos' >= pos + 1]_vars

\* C7: whenever derToRaw returns, the result has exactly 128 hex characters.
C7_RawIs128Chars ==
    (fn = "derToRaw" /\ out.ok) => Len(out.raw) = 128

\* C8: encodeLength(n) is the DER definite length of n (short form below
\* 128, else 0x80|k and the k-byte big-endian value with the least k), and
\* decodeLength of it returns n and the number of bytes produced.
C8_LengthRoundTrip ==
    /\ fn = "encodeLength" => out.bytes = DerLength(arg.length)
    /\ (fn = "decodeLength" /\ prev.fn = "encodeLength")
          => /\ out.ok
             /\ out.length = prev.arg.length
             /\ out.bytesRead = Len(arg.data)

\* the largest length, 2^31 - 1, through encodeLength and decodeLength
C8_Witness ==
    /\ fn = "decodeLength"
    /\ prev.fn = "encodeLength"
    /\ prev.arg.length = 2147483647
    /\ arg.data = <<132, 127, 255, 255, 255>>
    /\ out.ok
    /\ out.bytesRead = 5

\* C9: decodeLength throws for a first byte that announces more than 4, or
\* zero, length bytes, and so do decodeInteger, decodeSequence (for its own
\* length and for the length of each element it reads) and decodeSignature.
C9_BadLongFormRejected ==
    /\ [](/\ (fn = "decodeLength" /\ BadLengthByte(At(arg.data, arg.offset)))
               => ~out.ok
          /\ (fn = "decodeInteger" /\ At(arg.data, arg.offset) = TagInteger
                 /\ BadLengthByte(At(arg.data, arg.offset + 1)))
               => ~out.ok
          /\ (fn = "decodeSequence" /\ pc = "done"
                 /\ BadLengthByte(At(arg.data, arg.offset + 1)))
               => ~out.ok
          /\ (fn = "decodeSignature"
                 /\ \/ BadLengthByte(At(arg.signature, 1))
                    \/ /\ At(arg.signature, 0) = TagSequence
                       /\ At(arg.signature, 1) >= 1
                       /\ At(arg.signature, 1) <= 127
                       /\ BadLengthByte(At(arg.signature, 3)))
               => ~out.ok)
    /\ [][(pc = "loop" /\ pos < contentEnd /\ BadLengthByte(At(arg.data, pos + 1)))
            => (pc' = "done" /\ ~out'.ok)]_vars

\* decodeSignature failing on a first element whose length announces 5 bytes
C9_Witness ==
    /\ fn = "decodeSignature"
    /\ At(arg.signature, 1) >= 1
    /\ At(arg.signature, 1) <= 127
    /\ At(arg.signature, 3) = 133
    /\ ~out.ok
    /\ out.err = "Invalid or unsupported long form length"

\* C10: rawToDer throws for a string that is not 128 characters long and
\* for a byte array that is not 64 bytes long.
C10_RawLengthChecked ==
    (fn = "rawToDer"
        /\ \/ arg.rawSignature.type = "string" /\ Len(arg.rawSignature.v) # 128
           \/ arg.rawSignature.type = "bytes" /\ Len(arg.rawSignature.v) # 64)
      => ~out.ok

\* a byte array of 65 bytes rejected
C10_Witness ==
    /\ fn = "rawToDer"
    /\ arg.rawSignature.type = "bytes"
    /\ Len(arg.rawSignature.v) = 65
    /\ ~out.ok

\* C11: encodeInteger, encodeSignature and rawToDer throw for a hex string
\* that has a character that is no hexadecimal digit.
C11_NonHexThrows ==
    /\ (fn = "encodeInteger" /\ NonHexArg(arg.value)) => ~out.ok
    /\ (fn = "encodeSignature" /\ (NonHexArg(arg.r) \/ NonHexArg(arg.s))) => ~out.ok
    /\ (fn = "rawToDer" /\ NonHexArg(arg.rawSignature)) => ~out.ok

\* C12: encodeInteger and encodeSignature throw for every hex string
\* argument of odd length.
C12_OddLengthRejected ==
    /\ (fn = "encodeInteger" /\ OddArg(arg.value)) => ~out.ok
    /\ (fn = "encodeSignature" /\ (OddArg(arg.r) \/ OddArg(arg.s))) => ~out.ok

\* encodeSignature rejecting an s of three hexadecimal digits after a
\* well-formed r
C12_Witness ==
    /\ fn = "encodeSignature"
    /\ arg.r = Bytes(<<1>>)
    /\ arg.s = Str(<<"1", "2", "3">>)
    /\ ~out.ok
    /\ out.err = "Invalid hex string length"

\* the bytes read through the array object v now
ViewBytes(v) == IF v.shared THEN SubSeq(source, v.from + 1, v.to) ELSE v.bytes

\* the bytes the array object number k held when the decoder returned
Returned(k) == IF fn = "decodeInteger" THEN out.value ELSE out.elements[k]

\* C13: decodeInteger and decodeSequence leave the source array as it was,
\* and every value or element they return is a view of a range of that
\* array, a stripped decodeInteger value included: it holds the bytes of
\* that range, and a later write to the source inside the range shows
\* through it.
C13_ViewsOfSource ==
    fn \in {"decodeInteger", "decodeSequence"}
        => /\ pc \in {"loop", "done"} => source = arg.data
           /\ \A k \in 1..Len(views) :
                 /\ views[k].shared
                 /\ 0 <= views[k].from
                 /\ views[k].from <= views[k].to
                 /\ views[k].to <= Len(source)
           /\ (pc = "done" /\ out.ok)
                 => /\ Len(views) = (IF fn = "decodeInteger" THEN 1 ELSE Len(out.elements))
                    /\ \A k \in 1..Len(views) : ViewBytes(views[k]) = Returned(k)
           /\ pc = "written"
                 => \A k \in 1..Len(views) :
                      \A j \in 1..Len(Returned(k)) :
                         /\ ViewBytes(views[k])[j] = source[views[k].from + j]
                         /\ source[views[k].from + j] # arg.data[views[k].from + j]
                               => ViewBytes(views[k])[j] # Returned(k)[j]

\* a write to the first byte of a decodeInteger value whose leading 0x00
\* was stripped, read back through the value
C13_Witness ==
    /\ fn = "decodeInteger"
    /\ pc = "written"
    /\ arg.data = <<2, 2, 0, 128>>
    /\ arg.offset = 0
    /\ out.value = <<128>>
    /\ source = <<2, 2, 0, 127>>
    /\ ViewBytes(views[1]) = <<127>>

\* a write inside the second element returned by decodeSequence
C13_WitnessSequence ==
    /\ fn = "decodeSequence"
    /\ pc = "written"
    /\ Len(views) = 2
    /\ ViewBytes(views[2]) # out.elements[2]

\* C14: for every byte string d that derToRaw accepts, rawToDer of the
\* result returns d.
C14_DerRawDerRoundTrip ==
    (fn = "rawToDer" /\ prev.fn = "derToRaw")
        => (out.ok /\ out.der = prev.arg.derSignature)

\* the key, the mode, the padding and the IV of a call of encrypt are valid
ValidSm4(a) == Sm4Problem(a.key, a.options) = ""

\* the mode runs whole blocks, and the plaintext is handed over unpadded
\* and does not end on a block boundary
Unaligned(a) ==
    /\ a.options.mode \in BlockModes
    /\ a.options.padding = "NONE"
    /\ Len(a.plaintext) % BlockSize # 0

\* C15 as stated: for every plaintext and every valid key, mode, padding and
\* IV, decrypt(key, encrypt(key, p, options), options) = p.
C15_RoundTripAlways ==
    /\ (fn = "sm4.encrypt" /\ ValidSm4(arg)) => out.ok
    /\ (fn = "sm4.decrypt" /\ prev.fn = "sm4.encrypt")
          => (out.ok /\ out.plaintext = prev.arg.plaintext)

\* C15 amended: the round trip holds for every valid key, mode, padding and
\* IV and every plaintext, but for a plaintext that does not end on a block
\* boundary given to ECB or CBC without padding: encrypt rejects that one.
C15_RoundTrip ==
    /\ (fn = "sm4.encrypt" /\ ValidSm4(arg)) => (out.ok <=> ~Unaligned(arg))
    /\ (fn = "sm4.decrypt" /\ prev.fn = "sm4.encrypt")
          => (out.ok /\ out.plaintext = prev.arg.plaintext)

\* a round trip of 17 bytes through CBC with PKCS7 padding: two blocks
C15_Witness ==
    /\ fn = "sm4.decrypt"
    /\ prev.fn = "sm4.encrypt"
    /\ arg.options.mode = "CBC"
    /\ arg.options.padding = "PKCS7"
    /\ Len(arg.ciphertext) = 2 * BlockSize
    /\ out.ok
    /\ out.plaintext = Rep(65, BlockSize + 1)

\* the full blocks of the plaintext of a call of encrypt
FullBlocks == Len(arg.plaintext) \div BlockSize

\* the block chained into ciphertext block k under CBC
ChainedInto(k) == IF k = 1 THEN arg.options.iv ELSE BlockAt(out.ciphertext, k - 1)

\* C16 as stated: under ECB without padding equal plaintext blocks give
\* equal ciphertext blocks, and under CBC two equal consecutive plaintext
\* blocks give different ciphertext blocks.
C16_EcbEqualCbcDifferent ==
    (fn = "sm4.encrypt" /\ out.ok)
        => /\ (arg.options.mode = "ECB" /\ arg.options.padding = "NONE")
                 => \A i, j \in 1..FullBlocks :
                      BlockAt(arg.plaintext, i) = BlockAt(arg.plaintext, j)
                          => BlockAt(out.ciphertext, i) = BlockAt(out.ciphertext, j)
           /\ arg.options.mode = "CBC"
                 => \A i \in 1..(FullBlocks - 1) :
                      BlockAt(arg.plaintext, i) = BlockAt(arg.plaintext, i + 1)
                          => BlockAt(out.ciphertext, i) # BlockAt(out.ciphertext, i + 1)

\* C16 amended: under ECB without padding equal plaintext blocks give equal
\* ciphertext blocks; under CBC two equal consecutive plaintext blocks give
\* different ciphertext blocks exactly when the first of the two ciphertext
\* blocks differs from the block chained into it (the IV, or the ciphertext
\* block before).
C16_EcbEqualCbcChained ==
    (fn = "sm4.encrypt" /\ out.ok)
        => /\ (arg.options.mode = "ECB" /\ arg.options.padding = "NONE")
                 => \A i, j \in 1..FullBlocks :
                      BlockAt(arg.plaintext, i) = BlockAt(arg.plaintext, j)
                          => BlockAt(out.ciphertext, i) = BlockAt(out.ciphertext, j)
           /\ arg.options.mode = "CBC"
                 => \A i \in 1..(FullBlocks - 1) :
                      BlockAt(arg.plaintext, i) = BlockAt(arg.plaintext, i + 1)
                          => (BlockAt(out.ciphertext, i) # BlockAt(out.ciphertext, i + 1)
                                <=> BlockAt(out.ciphertext, i) # ChainedInto(i))

\* 32 bytes 'A' under CBC without padding: two different ciphertext blocks
C16_Witness ==
    /\ fn = "sm4.encrypt"
    /\ arg.options.mode = "CBC"
    /\ arg.options.padding = "NONE"
    /\ arg.plaintext = Rep(65, 2 * BlockSize)
    /\ out.ok
    /\ BlockAt(out.ciphertext, 1) # BlockAt(out.ciphertext, 2)

\* 32 bytes 'A' under ECB without padding: the same ciphertext block twice
C16_WitnessEcb ==
    /\ fn = "sm4.encrypt"
    /\ arg.options.mode = "ECB"
    /\ arg.options.padding = "NONE"
    /\ arg.plaintext = Rep(65, 2 * BlockSize)
    /\ out.ok
    /\ BlockAt(out.ciphertext, 1) = BlockAt(out.ciphertext, 2)

\* the bytes handed to update by the calls k..Len(cs) of cs, in order
RECURSIVE Supplied(_, _)
Supplied(cs, k) ==
    IF k > Len(cs) THEN <<>> ELSE cs[k].bytes \o Supplied(cs, k + 1)

\* the number of the last finalize among the first m calls, 0 if none
LastFinalize(m) ==
    IF \E k \in 1..m : calls[k].op = "finalize"
    THEN CHOOSE k \in 1..m : calls[k].op = "finalize"
                                /\ \A j \in (k + 1)..m : calls[j].op # "finalize"
    ELSE 0

\* the bytes handed to update after the finalize before the last call
SinceFinalize ==
    Supplied(SubSeq(calls, 1, Len(calls) - 1), LastFinalize(Len(calls) - 1) + 1)

\* C20: finalize after any updates yields the one-shot digest of the
\* bytes of those updates joined, and resets the instance: the next
\* finalize yields the digest of the bytes supplied after the one before.
C20_StreamingDigest ==
    fn = "hash.finalize"
        => /\ out.hash = Digest(SinceFinalize)
           /\ hasher = NewHash

\* two digests from one instance: 65 bytes in two updates across a block
\* boundary, then one byte alone
C20_Witness ==
    /\ fn = "hash.finalize"
    /\ Len(calls) = 5
    /\ calls[1] = [op |-> "update", bytes |-> Rep(99, HashBlockSize)]
    /\ calls[2] = [op |-> "update", bytes |-> <<97>>]
    /\ calls[3].op = "finalize"
    /\ calls[4] = [op |-> "update", bytes |-> <<97>>]
    /\ out.hash = Digest(<<97>>)
    /\ out.hash # Digest(Rep(99, HashBlockSize) \o <<97, 97>>)

\* the public key of the key pair that signed, at a verify of its signature
Signer == GenerateKeyPair(prev.arg.privateKey).publicKey

\* the two messages have the same length and differ in exactly one byte
OneByteApart(m1, m2) ==
    /\ Len(m1) = Len(m2)
    /\ Cardinality({i \in 1..Len(m1) : m1[i] # m2[i]}) = 1

\* the components of the raw signature handed to verify
SignatureR == ParseComponent(SubSeq(HexDecodeBytes(arg.signature), 1, DigestSize))
SignatureS ==
    ParseComponent(SubSeq(HexDecodeBytes(arg.signature), DigestSize + 1, 2 * DigestSize))

\* the signature handed to verify matches the message and the key
Matches ==
    /\ InRange(SignatureR)
    /\ InRange(SignatureS)
    /\ VerifyEquation(arg.publicKey, MessageDigest(arg.publicKey, arg.message),
                      SignatureR.low, SignatureS.low)

C18_MismatchIsFalse ==
    (fn = "sm2.verify" /\ Len(arg.signature) = 128 /\ LowerHex(arg.signature)
        /\ OnCurve(arg.publicKey) /\ ~Matches)
      => (out.ok /\ out.valid = FALSE)

\* a signature with r = n, and one with s = 0, answered with false
C18_Witness ==
    /\ fn = "sm2.verify"
    /\ prev = NoCall
    /\ Len(arg.signature) = 128
    /\ \/ SignatureR = [big |-> FALSE, low |-> CurveN]
       \/ SignatureS = [big |-> FALSE, low |-> 0]
    /\ out.ok
    /\ out.valid = FALSE

\* the transform of the last attempt of the running or finished sign
LastTransform ==
    SignTransform(arg.privateKey,
                  MessageDigest(GenerateKeyPair(arg.privateKey).publicKey, arg.message),
                  nonce)

\* the last attempt gave r = 0, s = 0 or r + k = n
LastDegenerate ==
    \/ LastTransform.r = 0
    \/ LastTransform.s = 0
    \/ LastTransform.r + nonce = CurveN

\* C19: sign makes another attempt, with a nonce drawn again, each time
\* the transform yields r = 0, s = 0 or r + k = n; it makes at most
\* MaxAttempts attempts and ends either with a signature whose r and s are
\* in [1, n-1] or, the budget used up, with the fatal error.
C19_BoundedRetry ==
    /\ [](fn = "sm2.sign"
            => /\ attempts <= MaxAttempts
               /\ pc = "sign"
                     => (attempts < MaxAttempts /\ (attempts > 0 => LastDegenerate))
               /\ pc = "done"
                     => \/ /\ out.ok
                           /\ ~LastDegenerate
                           /\ LastTransform.r \in 1..(CurveN - 1)
                           /\ LastTransform.s \in 1..(CurveN - 1)
                           /\ out.signature = RawSignature(LastTransform.r, LastTransform.s)
                        \/ /\ ~out.ok
                           /\ out.err = "CryptoError: signing retry budget exhausted"
                           /\ attempts = MaxAttempts
                           /\ LastDegenerate)
    /\ [][pc = "sign" => (attempts' = attempts + 1 /\ nonce' \in 1..(CurveN - 1))]_vars
    /\ (pc = "sign") ~> (pc = "done")

\* the fatal error after MaxAttempts degenerate attempts, for a key with
\* few degenerate nonces
C19_Witness ==
    /\ fn = "sm2.sign"
    /\ pc = "done"
    /\ arg.privateKey = 1
    /\ attempts = MaxAttempts
    /\ ~out.ok

\* offset of the first content byte of the SEQUENCE handed to decodeSequence
SequenceContentStart == DecodeSequenceHead(arg.data, arg.offset).contentStart

\* C21: every element that decodeSequence returns lies inside the content
\* range of the SEQUENCE, from its first content byte to its declared
\* content end, and the returned elements tile that range: the first
\* begins at its start, each begins where the one before ends, and the
\* last ends at its end.
C21_ElementsInsideContent ==
    (fn = "decodeSequence" /\ pc = "done" /\ out.ok)
        => /\ \A k \in 1..Len(views) :
                 /\ views[k].from >= SequenceContentStart
                 /\ views[k].to <= contentEnd
           /\ Len(views) = 0 => SequenceContentStart = contentEnd
           /\ Len(views) > 0
                 => /\ views[1].from = SequenceContentStart
                    /\ \A k \in 1..(Len(views) - 1) : views[k + 1].from = views[k].to
                    /\ views[Len(views)].to = contentEnd

\* C22: whenever decodeLength returns, the length is not negative and is
\* the unsigned big-endian value of the length bytes read (the first byte
\* itself in the short form), a 4-byte long form whose first length byte
\* is 0x80 or more included; and the bytesRead that decodeInteger and
\* decodeSequence report is at least 2.
C22_LengthUnsigned ==
    /\ (fn = "decodeLength" /\ out.ok)
          => /\ out.length >= 0
             /\ IF At(arg.data, arg.offset) < 128
                THEN out.length = At(arg.data, arg.offset)
                ELSE BigEndian(out.length, Announced(At(arg.data, arg.offset)))
                       = SubSeq(arg.data, arg.offset + 2,
                                arg.offset + 1 + Announced(At(arg.data, arg.offset)))
    /\ (fn \in {"decodeInteger", "decodeSequence"} /\ pc = "done" /\ out.ok)
          => out.bytesRead >= 2

\* the summed length of the first k elements of a list
RECURSIVE SumLen(_, _)
SumLen(es, k) == IF k = 0 THEN 0 ELSE SumLen(es, k - 1) + Len(es[k])

\* C23: for every list of well-formed elements e1..en, n >= 0,
\* encodeSequence gives the byte 0x30, the DER length of the summed element
\* lengths and the elements one after the other in the order of the
\* arguments; decodeSequence of that output collects e1..en in that order,
\* one per iteration, and returns them with bytesRead equal to the length
\* of the output.
C23_SequenceRoundTrip ==
    /\ fn = "encodeSequence"
          => LET es  == arg.elements
                 n   == Len(es)
                 hdr == 1 + Len(DerLength(SumLen(es, n)))
             IN  /\ out.ok
                 /\ Len(out.der) = hdr + SumLen(es, n)
                 /\ SubSeq(out.der, 1, hdr) = <<48>> \o DerLength(SumLen(es, n))
                 /\ \A k \in 1..n :
                       SubSeq(out.der, hdr + SumLen(es, k - 1) + 1, hdr + SumLen(es, k))
                          = es[k]
    /\ (fn = "decodeSequence" /\ prev.fn = "encodeSequence")
          => LET es == prev.arg.elements
             IN  /\ pc = "loop"
                       => /\ Len(elements) <= Len(es)
                          /\ elements = SubSeq(es, 1, Len(elements))
                          /\ Len(elements) < Len(es) <=> pos < contentEnd
                 /\ pc = "done"
                       => /\ out.ok
                          /\ out.elements = es
                          /\ out.bytesRead = Len(arg.data)

\* two elements, the first with a long-form length, collected in order from
\* a SEQUENCE whose own length takes the long form
C23_Witness ==
    /\ fn = "decodeSequence"
    /\ prev.fn = "encodeSequence"
    /\ pc = "done"
    /\ out.ok
    /\ Len(out.elements) = 2
    /\ Len(out.elements[1]) > 128
    /\ out.elements[2] = <<5, 0>>
    /\ arg.data[2] = 129

\* the empty SEQUENCE 30 00 decoded to no element
C23_WitnessEmpty ==
    /\ fn = "decodeSequence"
    /\ prev.fn = "encodeSequence"
    /\ pc = "done"
    /\ arg.data = <<48, 0>>
    /\ out.ok
    /\ out.elements = <<>>
    /\ out.bytesRead = 2

\* the length of the DER INTEGER holding the non-negative value v
IntegerLength(v) == 1 + Len(DerLength(Len(IntegerContent(v)))) + Len(IntegerContent(v))

\* C24: for every non-empty v (bytes, or lowercase hex text of even
\* length), decodeInteger(encodeInteger(v)) returns v without its leading
\* zero bytes (the last byte kept) and the length of encodeInteger(v) as
\* bytesRead; encodeInteger of the returned value is encodeInteger(v)
\* again; and when a second INTEGER follows in the buffer, decodeInteger at
\* the offset advanced by bytesRead returns the second value and ends at
\* the end of the buffer.
C24_IntegerRoundTrip ==
    /\ (fn = "decodeInteger" /\ prev.fn = "encodeInteger"
            /\ HexArg(prev.arg.value) /\ ArgBytes(prev.arg.value) # <<>>)
          => /\ out.ok
             /\ out.value = Canonical(ArgBytes(prev.arg.value))
             /\ out.bytesRead = IntegerLength(ArgBytes(prev.arg.value))
             /\ out.bytesRead
                  = Len(arg.data) - (IF prev.then = <<>> THEN 0 ELSE IntegerLength(prev.then))
    /\ (fn = "encodeInteger" /\ prev.fn = "decodeInteger")
          => /\ out.ok
             /\ out.der = SubSeq(prev.arg.data, 1, prev.out.bytesRead)
    /\ (fn = "decodeInteger" /\ prev.fn = "decodeInteger")
          => /\ arg.offset = prev.out.bytesRead
             /\ out.ok
             /\ out.value = Canonical(prev.then)
             /\ out.bytesRead = IntegerLength(prev.then)
             /\ arg.offset + out.bytesRead = Len(arg.data)

\* the value 80 00 .. 00 of 128 bytes, encoded with a pad byte and a
\* long-form length, decoded to its 128 bytes
C24_Witness ==
    /\ fn = "decodeInteger"
    /\ prev.fn = "encodeInteger"
    /\ prev.then = <<>>
    /\ Len(ArgBytes(prev.arg.value)) = 128
    /\ ArgBytes(prev.arg.value)[1] = 128
    /\ arg.data[2] = 129
    /\ arg.data[3] = 129
    /\ out.ok
    /\ Len(out.value) = 128
    /\ out.bytesRead = 132

\* the second INTEGER, 00 80, of a buffer read after a first one that
\* carries a pad byte
C24_WitnessNext ==
    /\ fn = "decodeInteger"
    /\ prev.fn = "decodeInteger"
    /\ prev.arg.data[2] = Len(prev.out.value) + 1
    /\ arg.offset > 0
    /\ out.ok
    /\ out.value = <<128>>

\* a value with leading zero bytes encoded again from its decoded form
C24_WitnessAgain ==
    /\ fn = "encodeInteger"
    /\ prev.fn = "decodeInteger"
    /\ prev.out.value = <<128, 1>>
    /\ out.der = <<2, 3, 0, 128, 1>>

\* offset of the byte after the TLV at offset at, as its length declares
ElementEnd(data, at) == ContentAt(data, at) + Declared(data, at + 1)

\* the TLV at offset at has a complete length and ends at or before limit
WholeElement(data, at, limit) ==
    /\ at >= 0
    /\ at < limit
    /\ CompleteLength(data, at + 1)
    /\ ~HugeLength(data, at + 1)
    /\ ElementEnd(data, at) <= limit

\* d starts with a well-formed SEQUENCE whose content is exactly two
\* elements, both with the INTEGER tag
TwoIntegers(d) ==
    /\ WellFormedAt(d, 0, TagSequence)
    /\ WholeElement(d, ContentAt(d, 0), ElementEnd(d, 0))
    /\ At(d, ContentAt(d, 0)) = TagInteger
    /\ WholeElement(d, ElementEnd(d, ContentAt(d, 0)), ElementEnd(d, 0))
    /\ At(d, ElementEnd(d, ContentAt(d, 0))) = TagInteger
    /\ ElementEnd(d, ElementEnd(d, ContentAt(d, 0))) = ElementEnd(d, 0)

\* C25: decodeSignature returns (r, s) only for an input whose SEQUENCE
\* holds exactly two elements, both with the INTEGER tag 0x02; for a
\* SEQUENCE of no, one, three or more elements, or with an element of
\* another type, it throws.
C25_OnlyTwoIntegers ==
    (fn = "decodeSignature" /\ out.ok) => TwoIntegers(arg.signature)

\* C26: every INTEGER that encodeInteger emits declares at least one content
\* byte, for the empty hex string and the empty byte array too: an empty
\* input is rejected or encoded as the value zero, never as 02 00.
C26_ContentNeverEmpty ==
    (fn = "encodeInteger" /\ out.ok)
        => /\ Len(out.der) >= 3
           /\ out.der[1] = TagInteger
           /\ out.der[2] >= 1
           /\ out.der # <<2, 0>>

\* the outcome of decodeSignature on the input read as a DER signature
AsDer(signature) == DecodeSignature(ArgBytes(signature))

\* the outcome of decodeSignature on the input read as a raw signature
AsRaw(signature) ==
    IF RawToDer(signature).ok THEN DecodeSignature(RawToDer(signature).der)
    ELSE RawToDer(signature)

\* signatureToXml answered as the reading e of its input requires
AnsweredAs(e) ==
    /\ out.ok <=> e.ok
    /\ out.ok => (out.xml.r = e.r /\ out.xml.s = e.s)

\* the input is a DER signature: a SEQUENCE of two INTEGERs and no more
IsDerSignature(signature) ==
    /\ TwoIntegers(ArgBytes(signature))
    /\ ElementEnd(ArgBytes(signature), 0) = Len(ArgBytes(signature))

\* C27: signatureToXml reads its input as DER when isDer is true and as raw
\* r || s when isDer is false; when isDer is omitted it reads every DER
\* signature as DER and every raw signature of 64 bytes as raw, given as
\* hex text or as bytes.
C27_IsDerHonoured ==
    fn = "signatureToXml"
        => /\ arg.isDer = "true" => AnsweredAs(AsDer(arg.signature))
           /\ arg.isDer = "false" => AnsweredAs(AsRaw(arg.signature))
           /\ (arg.isDer = "omitted" /\ IsDerSignature(arg.signature))
                 => AnsweredAs(AsDer(arg.signature))
           /\ (arg.isDer = "omitted" /\ ~IsDerSignature(arg.signature)
                 /\ Len(ArgBytes(arg.signature)) = 64)
                 => AnsweredAs(AsRaw(arg.signature))

====
